---- MODULE Spec2Model ----
(***************************************************************************)
(* DecisionCentral (src/app.py): the boundary marshalling layer            *)
(* (convertAtString, convertIn, convertOut), the result normaliser inside  *)
(* decision_service / decision_service_table, and the service registry.    *)
(*                                                                         *)
(* Python values are tagged records [k |-> <type name>, v |-> <payload>].  *)
(*   str       v is the sequence of its characters                         *)
(*   int       v is the integer                                            *)
(*   bool      v is TRUE / FALSE   (bool is a subclass of int in Python)   *)
(*   float     v is the number of HALVES (3 stands for 1.5), so that both  *)
(*             integer-valued and fractional floats exist                  *)
(*   date      v = <<year, month, day>>                                    *)
(*   time      v = <<hour, minute, second>>   (microsecond 0, no tzinfo)   *)
(*   datetime  v = <<year, month, day, hour, minute, second>>              *)
(*             (datetime is a subclass of date in Python)                  *)
(*   timedelta v is total_seconds() in halves of a second                  *)
(*   tuple     v is the sequence of its items                              *)
(*   list      v is the sequence of its items                              *)
(*   dict      v is a function from its keys to its values                 *)
(*   None      v is 0                                                      *)
(***************************************************************************)
EXTENDS Integers, Sequences, FiniteSets, TLC

VARIABLES
    decisionServices,   \* app.py:44, the registry: service name -> engine
    op,                 \* the operation that ran last ("idle": none pending)
    arg0,               \* a codec call: contents of the argument before the call
    arg,                \* a codec call: contents of the caller's argument object after it
    ret,                \* a codec call: the value returned
    retIsArg,           \* a codec call: the returned reference is the argument object itself
    request,            \* a handler call: the HTTP request
    engine,             \* a handler call: the calls made to the engine and what it returned
    response,           \* a handler call: the HTTP response (or the fault raised)
    threads             \* requests served at the same time: each thread's place in its handler

vars == <<decisionServices, op, arg0, arg, ret, retIsArg, request, engine, response, threads>>

codecVars == <<arg0, arg, ret, retIsArg>>
handlerVars == <<request, engine, response>>

-----------------------------------------------------------------------------
(* Bounds of the model *)

MaxLen == 2         \* longest list built as a codec input
MaxDepth == 2       \* deepest nesting of containers built as a codec input
MaxMonths == 25     \* largest |months| of a years-and-months duration
MaxDays == 1        \* largest whole-day part of a days-and-time duration
MaxRecords == 2     \* longest sequence of DecisionRecords the engine returns
MaxTraces == 2      \* longest list of RuleTraces in one DecisionRecord
MaxConcepts == 2    \* most concepts in a glossary
MaxThreads == 2     \* most requests served at the same time

-----------------------------------------------------------------------------
(* Python values *)

PyNone == [k |-> "None", v |-> 0]
PyBool(b) == [k |-> "bool", v |-> b]
PyInt(n) == [k |-> "int", v |-> n]
PyFloat(halves) == [k |-> "float", v |-> halves]
PyStr(chars) == [k |-> "str", v |-> chars]
PyDate(y, m, d) == [k |-> "date", v |-> <<y, m, d>>]
PyTime(h, m, s) == [k |-> "time", v |-> <<h, m, s>>]
PyDateTime(y, mo, d, h, mi, s) == [k |-> "datetime", v |-> <<y, mo, d, h, mi, s>>]
PyTimedelta(halves) == [k |-> "timedelta", v |-> halves]
PyTuple(items) == [k |-> "tuple", v |-> items]
PyList(items) == [k |-> "list", v |-> items]
PyDict(f) == [k |-> "dict", v |-> f]

EmptyMap == [key \in {} |-> PyNone]

\* isinstance(x, int): bool is a subclass of int
IsInstanceInt(x) == x.k \in {"int", "bool"}
\* isinstance(x, datetime.date): datetime is a subclass of date
IsInstanceDate(x) == x.k \in {"date", "datetime"}
IsInstanceDict(x) == x.k = "dict"
IsInstanceList(x) == x.k = "list"
IsInstanceStr(x) == x.k = "str"

-----------------------------------------------------------------------------
(* Text formatting, as Python does it *)

DigitChars == <<"0", "1", "2", "3", "4", "5", "6", "7", "8", "9">>

Abs(n) == IF n < 0 THEN -n ELSE n

RECURSIVE DecStr(_)
\* '%d' % n for n >= 0
DecStr(n) ==
    IF n < 10 THEN <<DigitChars[n + 1]>>
    ELSE DecStr(n \div 10) \o <<DigitChars[(n % 10) + 1]>>

RECURSIVE ZeroPad(_, _)
\* '%0<w>d' % n for n >= 0
ZeroPad(n, w) ==
    IF Len(DecStr(n)) >= w THEN DecStr(n)
    ELSE <<"0">> \o ZeroPad(n, w - 1)

\* '%f' % x for x >= 0 given in halves: six decimal places
FormatF(halves) ==
    DecStr(halves \div 2) \o <<".">> \o
    (IF halves % 2 = 0 THEN <<"0", "0", "0", "0", "0", "0">>
                       ELSE <<"5", "0", "0", "0", "0", "0">>)

\* date.isoformat(), time.isoformat(), datetime.isoformat(sep)
DateIso(d) == ZeroPad(d[1], 4) \o <<"-">> \o ZeroPad(d[2], 2) \o <<"-">> \o ZeroPad(d[3], 2)
TimeIso(t) == ZeroPad(t[1], 2) \o <<":">> \o ZeroPad(t[2], 2) \o <<":">> \o ZeroPad(t[3], 2)
DateTimeIso(dt, sep) ==
    DateIso(<<dt[1], dt[2], dt[3]>>) \o <<sep>> \o TimeIso(<<dt[4], dt[5], dt[6]>>)

\* x.isoformat() dispatches on the class of x
isoformat(x) ==
    CASE x.k = "date" -> DateIso(x.v)
      [] x.k = "time" -> TimeIso(x.v)
      [] x.k = "datetime" -> DateTimeIso(x.v, "T")

\* str(x), for the kinds that occur as the ends of an interval
pyStr(x) ==
    CASE x.k = "str" -> x.v
      [] x.k = "float" ->
            (IF x.v < 0 THEN <<"-">> ELSE <<>>) \o DecStr(Abs(x.v) \div 2) \o <<".">> \o
            (IF Abs(x.v) % 2 = 0 THEN <<"0">> ELSE <<"5">>)
      [] x.k = "int" -> (IF x.v < 0 THEN <<"-">> ELSE <<>>) \o DecStr(Abs(x.v))
      [] x.k = "date" -> DateIso(x.v)
      [] x.k = "time" -> TimeIso(x.v)
      [] x.k = "datetime" -> DateTimeIso(x.v, " ")

\* float(x) for an int or a bool
float(x) ==
    IF x.k = "bool" THEN PyFloat(IF x.v THEN 2 ELSE 0)
    ELSE PyFloat(2 * x.v)

AtQuote == <<"@", "\"">>
Quote == <<"\"">>

-----------------------------------------------------------------------------
(* The values of the temporal and interval kinds that occur in the model *)

Dates == {PyDate(2024, 1, 15), PyDate(1999, 12, 31)}
Times == {PyTime(0, 0, 0), PyTime(23, 59, 59)}
DateTimes == {PyDateTime(2024, 1, 15, 9, 5, 0), PyDateTime(1999, 12, 31, 23, 59, 59)}

\* total_seconds() in halves: every mix of days, hours, minutes, seconds, a half, a sign
TimedeltaHalves ==
    { sg * (2 * (d * 86400 + h * 3600 + m * 60 + s) + f) :
        sg \in {1, -1}, d \in 0..MaxDays, h \in {0, 2, 23}, m \in {0, 3, 59},
        s \in {0, 4, 59}, f \in {0, 1} }
Timedeltas == {PyTimedelta(h) : h \in TimedeltaHalves}

\* a years-and-months duration is a plain int (a number of months)
YearMonthDurations == {PyInt(m) : m \in (-MaxMonths)..MaxMonths}

IntervalEnds == {PyFloat(2), PyFloat(5), PyFloat(0 - 3)} \cup Dates
Intervals ==
    { PyTuple(<<PyStr(<<lowEnd>>), lowVal, highVal, PyStr(<<highEnd>>)>>) :
        lowEnd \in {"[", "("}, lowVal \in IntervalEnds,
        highVal \in IntervalEnds, highEnd \in {"]", ")"} }

Temporals == Dates \cup Times \cup DateTimes \cup Timedeltas \cup YearMonthDurations

-----------------------------------------------------------------------------
(* pySFeel's parser: an external collaborator.  Its contract, from the     *)
(* FEEL literal grammar: the text of a well-formed literal parses to the    *)
(* value it denotes with a status without 'errors'; any other text gives a  *)
(* status with 'errors'.                                                    *)

\* the FEEL literal text of a value (ISO 8601 dates, times and durations;
\* the interval <lowEnd><low> .. <high><highEnd>)
FeelText(x) ==
    CASE x.k = "date" ->
            ZeroPad(x.v[1], 4) \o <<"-">> \o ZeroPad(x.v[2], 2) \o <<"-">> \o ZeroPad(x.v[3], 2)
      [] x.k = "time" ->
            ZeroPad(x.v[1], 2) \o <<":">> \o ZeroPad(x.v[2], 2) \o <<":">> \o ZeroPad(x.v[3], 2)
      [] x.k = "datetime" ->
            ZeroPad(x.v[1], 4) \o <<"-">> \o ZeroPad(x.v[2], 2) \o <<"-">> \o ZeroPad(x.v[3], 2)
            \o <<"T">> \o
            ZeroPad(x.v[4], 2) \o <<":">> \o ZeroPad(x.v[5], 2) \o <<":">> \o ZeroPad(x.v[6], 2)
      [] x.k = "timedelta" ->
            LET h == Abs(x.v)
            IN  (IF x.v < 0 THEN <<"-">> ELSE <<>>) \o <<"P">> \o
                DecStr(h \div 172800) \o <<"D", "T">> \o
                DecStr((h % 172800) \div 7200) \o <<"H">> \o
                DecStr((h % 7200) \div 120) \o <<"M">> \o
                FormatF(h % 120) \o <<"S">>
      [] x.k = "int" ->
            (IF x.v < 0 THEN <<"-">> ELSE <<>>) \o <<"P">> \o
            DecStr(Abs(x.v) \div 12) \o <<"Y">> \o DecStr(Abs(x.v) % 12) \o <<"M">>
      [] x.k = "tuple" ->
            x.v[1].v \o pyStr(x.v[2]) \o <<" ", ".", ".", " ">> \o pyStr(x.v[3]) \o x.v[4].v

Literals == Temporals \cup Intervals

NoErrors == EmptyMap
ParseErrors == [key \in {"errors"} |-> PyList(<<PyStr(<<"b", "a", "d">>)>>)]

\* parser.sFeelParse(text) -> (status, value)
\* the grammar as a table: <<text, the value it denotes>>
FeelGrammar == {<<FeelText(x), x>> : x \in Literals}

\* parser.sFeelParse(text) -> (status, value)
sFeelParse(text) ==
    IF \E entry \in FeelGrammar : entry[1] = text
    THEN <<NoErrors, (CHOOSE entry \in FeelGrammar : entry[1] = text)[2]>>
    ELSE <<ParseErrors, PyNone>>

-----------------------------------------------------------------------------
(* convertAtString, convertIn, convertOut *)

\* s[0:2] and s[-1] of a Python string
Slice02(chars) == SubSeq(chars, 1, IF Len(chars) < 2 THEN Len(chars) ELSE 2)
\* s[2:-1] of a Python string
Slice2m1(chars) == SubSeq(chars, 3, Len(chars) - 1)

\* isinstance(x, str) and (x[0:2] == '@"') and (x[-1] == '"')
IsAtString(x) ==
    /\ IsInstanceStr(x)
    /\ Slice02(x.v) = AtQuote
    /\ x.v[Len(x.v)] = "\""

convertAtStringKeepsValue(thisString) ==
    sFeelParse(Slice2m1(thisString.v))[2]

convertAtString(thisString) ==
    LET parsed == sFeelParse(Slice2m1(thisString.v))
        status == parsed[1]
        newValue == parsed[2]
    IN  IF "errors" \in DOMAIN status THEN thisString ELSE newValue

RECURSIVE convertIn(_)

\* the three branches applied to an item of a dict or of a list
convertInItemFlat(item) ==
    IF IsInstanceInt(item) THEN float(item)
    ELSE IF IsAtString(item) THEN convertAtString(item)
    ELSE item

\* the branches without the one for an escaped-literal string
convertInItemKeepsTokens(item) ==
    IF IsInstanceInt(item) THEN float(item)
    ELSE IF IsInstanceDict(item) \/ IsInstanceList(item) THEN convertIn(item)
    ELSE item

convertInItem(item) ==
    IF IsInstanceInt(item) THEN float(item)
    ELSE IF IsAtString(item) THEN convertAtString(item)
    ELSE IF IsInstanceDict(item) \/ IsInstanceList(item) THEN convertIn(item)
    ELSE item

convertIn(newValue) ==
    IF IsInstanceDict(newValue)
    THEN PyDict([key \in DOMAIN newValue.v |-> convertInItem(newValue.v[key])])
    ELSE IF IsInstanceList(newValue)
    THEN PyList([i \in 1..Len(newValue.v) |-> convertInItem(newValue.v[i])])
    ELSE IF IsAtString(newValue) THEN convertAtString(newValue)
    ELSE newValue

\* the decomposition without `duration = -duration`
EncodeTimedeltaSigned(total) ==
    LET sign == IF total < 0 THEN <<"-">> ELSE <<>>
        secs == total % 120
        duration1 == total \div 120
        mins == duration1 % 60
        duration2 == duration1 \div 60
        hours == duration2 % 24
        days == Abs(duration2 \div 24)
    IN  PyStr(AtQuote \o sign \o <<"P">> \o DecStr(days) \o <<"D", "T">> \o DecStr(hours)
              \o <<"H">> \o DecStr(mins) \o <<"M">> \o FormatF(secs) \o <<"S">> \o Quote)

\* a timedelta, total_seconds() given in halves
EncodeTimedelta(total) ==
    LET sign == IF total < 0 THEN <<"-">> ELSE <<>>
        duration0 == IF total < 0 THEN -total ELSE total
        secs == duration0 % 120
        duration1 == duration0 \div 120
        mins == duration1 % 60
        duration2 == duration1 \div 60
        hours == duration2 % 24
        days == duration2 \div 24
    IN  PyStr(AtQuote \o sign \o <<"P">> \o DecStr(days) \o <<"D", "T">> \o DecStr(hours)
              \o <<"H">> \o DecStr(mins) \o <<"M">> \o FormatF(secs) \o <<"S">> \o Quote)

EncodeBoolNative(b) == PyBool(b)

EncodeBool(b) ==
    IF b THEN PyStr(<<"t", "r", "u", "e">>) ELSE PyStr(<<"f", "a", "l", "s", "e">>)

\* years and months without `thisValue = -thisValue`
EncodeMonthsSigned(n) ==
    LET sign == IF n < 0 THEN <<"-">> ELSE <<>>
        years == Abs(n \div 12)
        months == n % 12
    IN  PyStr(AtQuote \o sign \o <<"P">> \o DecStr(years) \o <<"Y">> \o DecStr(months)
              \o <<"M">> \o Quote)

\* an int: a number of months
EncodeMonths(n) ==
    LET sign == IF n < 0 THEN <<"-">> ELSE <<>>
        thisValue == IF n < 0 THEN -n ELSE n
        years == thisValue \div 12
        months == thisValue % 12
    IN  PyStr(AtQuote \o sign \o <<"P">> \o DecStr(years) \o <<"Y">> \o DecStr(months)
              \o <<"M">> \o Quote)

\* the four items with a closing quote
EncodeIntervalQuoted(items) ==
    PyStr(AtQuote \o items[1].v \o pyStr(items[2]) \o <<" ", ".", ".", " ">>
          \o pyStr(items[3]) \o items[4].v \o Quote)

\* a tuple of four items
EncodeInterval(items) ==
    PyStr(AtQuote \o items[1].v \o pyStr(items[2]) \o <<" ", ".", ".", " ">>
          \o pyStr(items[3]) \o items[4].v)

RECURSIVE convertOut(_)

convertOutStringifies(thisValue) ==
    IF IsInstanceDate(thisValue) THEN PyStr(AtQuote \o isoformat(thisValue) \o Quote)
    ELSE IF thisValue.k = "time" THEN PyStr(AtQuote \o isoformat(thisValue) \o Quote)
    ELSE IF thisValue.k = "timedelta" THEN EncodeTimedelta(thisValue.v)
    ELSE IF thisValue.k = "bool" THEN EncodeBool(thisValue.v)
    ELSE IF IsInstanceInt(thisValue) THEN EncodeMonths(thisValue.v)
    ELSE IF thisValue.k = "tuple" /\ Len(thisValue.v) = 4 THEN EncodeInterval(thisValue.v)
    ELSE IF thisValue.k = "None" THEN PyStr(<<"n", "u", "l", "l">>)
    ELSE IF IsInstanceDict(thisValue)
    THEN PyDict([item \in DOMAIN thisValue.v |-> convertOut(thisValue.v[item])])
    ELSE IF IsInstanceList(thisValue)
    THEN PyList([i \in 1..Len(thisValue.v) |-> convertOut(thisValue.v[i])])
    ELSE IF thisValue.k = "float" THEN PyStr(pyStr(thisValue))
    ELSE thisValue

convertOut(thisValue) ==
    IF IsInstanceDate(thisValue) THEN PyStr(AtQuote \o isoformat(thisValue) \o Quote)
    ELSE IF thisValue.k = "datetime"
    THEN PyStr(AtQuote \o DateTimeIso(thisValue.v, "T") \o Quote)
    ELSE IF thisValue.k = "time" THEN PyStr(AtQuote \o isoformat(thisValue) \o Quote)
    ELSE IF thisValue.k = "timedelta" THEN EncodeTimedelta(thisValue.v)
    ELSE IF thisValue.k = "bool" THEN EncodeBool(thisValue.v)
    ELSE IF IsInstanceInt(thisValue) THEN EncodeMonths(thisValue.v)
    ELSE IF thisValue.k = "tuple" /\ Len(thisValue.v) = 4 THEN EncodeInterval(thisValue.v)
    ELSE IF thisValue.k = "None" THEN PyStr(<<"n", "u", "l", "l">>)
    ELSE IF IsInstanceDict(thisValue)
    THEN PyDict([item \in DOMAIN thisValue.v |-> convertOut(thisValue.v[item])])
    ELSE IF IsInstanceList(thisValue)
    THEN PyList([i \in 1..Len(thisValue.v) |-> convertOut(thisValue.v[i])])
    ELSE thisValue

-----------------------------------------------------------------------------
(* The arguments the codec is called with *)

\* '@"' + <the literal text of x> + '"'
Token(x) == PyStr(AtQuote \o FeelText(x) \o Quote)

BadToken == PyStr(<<"@", "\"", "z", "z", "\"">>)
PlainStrs ==
    { PyStr(<<>>), PyStr(<<"a">>), PyStr(<<"@">>), PyStr(AtQuote), PyStr(<<"a", "\"">>),
      PyStr(<<"t", "r", "u", "e">>), PyStr(<<"@", "\"", "z">>), BadToken }
Floats == {PyFloat(h) : h \in {0, 3, 10, 0 - 3, 0 - 4}}
Bools == {PyBool(TRUE), PyBool(FALSE)}

\* scalars of a JSON body or of a form field
WireScalars ==
    {PyInt(n) : n \in {5, 0, 0 - 7}} \cup Floats \cup Bools \cup {PyNone} \cup PlainStrs
    \cup {Token(x) : x \in Literals}

\* scalars of the engine's value model
NativeScalars == Literals \cup Floats \cup Bools \cup {PyNone} \cup PlainStrs

DictKeys == {"a", "b"}

\* the lists of at most n items and the dicts of at most n keys, items taken from E
Containers(E, Keys, n) ==
    {PyList(items) : items \in UNION {[1..m -> E] : m \in 0..n}}
    \cup {PyDict(f) : f \in UNION {[D -> E] : D \in {K \in SUBSET Keys : Cardinality(K) <= n}}}

RECURSIVE Inner(_, _)
Inner(E, depth) ==
    IF depth = 0 THEN {} ELSE Containers(E \cup Inner(E, depth - 1), {"a"}, 1)

\* containers nested up to MaxDepth, the outermost of at most MaxLen items
Nested(E) == Containers(E \cup Inner(E, MaxDepth - 1), DictKeys, MaxLen)

\* x alone in a container, and x two containers deep
Wrapped(x) ==
    { PyList(<<x>>), PyDict("a" :> x),
      PyList(<<PyList(<<x>>)>>), PyList(<<PyDict("a" :> x)>>),
      PyDict("a" :> PyList(<<x>>)), PyDict("a" :> PyDict("b" :> x)) }

ConvertInArgs ==
    WireScalars \cup Nested({PyInt(5), BadToken}) \cup UNION {Wrapped(x) : x \in WireScalars}

ConvertOutArgs ==
    NativeScalars \cup Nested({PyBool(TRUE), PyFloat(3)})
    \cup UNION {Wrapped(x) : x \in NativeScalars}

AtStrings == {x \in WireScalars : IsAtString(x)}

-----------------------------------------------------------------------------
(* Calls of the codec *)

Idle == op = "idle"

NoCall == PyNone
NoRequest == [url |-> ""]
NoEngine ==
    [calls |-> <<>>, status |-> EmptyMap, newData |-> PyNone, after |-> PyNone, converted |-> {}]
NoResponse == [kind |-> "none", code |-> 0]

\* convertAtString(thisString): strings are immutable, the argument is left as it was
CallConvertAtString ==
    /\ Idle
    /\ \E thisString \in AtStrings :
        /\ arg0' = thisString
        /\ arg' = thisString
        /\ ret' = convertAtString(thisString)
        /\ retIsArg' = ("errors" \in DOMAIN sFeelParse(Slice2m1(thisString.v))[1])
    /\ op' = "convertAtString"
    /\ UNCHANGED <<decisionServices, handlerVars, threads>>

\* convertIn(newValue): a dict or a list is updated item by item in place
\* (newValue[key] = ..., newValue[i] = ...) and that same object is returned
CallConvertIn ==
    /\ Idle
    /\ \E newValue \in ConvertInArgs :
        /\ arg0' = newValue
        /\ arg' = IF IsInstanceDict(newValue) \/ IsInstanceList(newValue)
                  THEN convertIn(newValue) ELSE newValue
        /\ ret' = convertIn(newValue)
        /\ retIsArg' = (IsInstanceDict(newValue) \/ IsInstanceList(newValue)
                        \/ ~IsAtString(newValue)
                        \/ "errors" \in DOMAIN sFeelParse(Slice2m1(newValue.v))[1])
    /\ op' = "convertIn"
    /\ UNCHANGED <<decisionServices, handlerVars, threads>>

\* convertOut(thisValue): a dict or a list is updated item by item in place
\* (thisValue[item] = ..., thisValue[i] = ...) and that same object is returned
CallConvertOut ==
    /\ Idle
    /\ \E thisValue \in ConvertOutArgs :
        /\ arg0' = thisValue
        /\ arg' = IF IsInstanceDict(thisValue) \/ IsInstanceList(thisValue)
                  THEN convertOut(thisValue) ELSE thisValue
        /\ ret' = convertOut(thisValue)
        /\ retIsArg' = (IsInstanceDict(thisValue) \/ IsInstanceList(thisValue)
                        \/ thisValue.k \in {"float", "str"})
    /\ op' = "convertOut"
    /\ UNCHANGED <<decisionServices, handlerVars, threads>>

\* the call is over
Return ==
    /\ ~Idle
    /\ op' = "idle"
    /\ arg0' = NoCall /\ arg' = NoCall /\ ret' = NoCall /\ retIsArg' = FALSE
    /\ request' = NoRequest /\ engine' = NoEngine /\ response' = NoResponse
    /\ UNCHANGED <<decisionServices, threads>>

-----------------------------------------------------------------------------
(* The engine (pyDMNrules.DMN): an external collaborator.  decide and       *)
(* decideTables return (status, newData): status is a dict that has the key  *)
(* 'errors' when the decision failed; newData is one DecisionRecord (a dict  *)
(* with 'Result' and 'Executed Rule') or a list of them; 'Executed Rule' is  *)
(* one RuleTrace (a tuple of three str) or a list of RuleTraces.             *)

\* the RuleTrace of the record at place i (0: the record is not in a list), the
\* j-th of its list (0: the trace is not in a list): all different, so that an
\* order or an omission shows
RuleTrace(i, j) ==
    PyTuple(<<PyStr(<<"D", DigitChars[i + 1]>>), PyStr(<<"T">>),
              PyStr(<<"R", DigitChars[j + 1]>>)>>)

\* 'Executed Rule' of shape n: one trace (n = -1) or a list of n traces
ExecutedRuleOf(i, n) ==
    IF n < 0 THEN RuleTrace(i, 0) ELSE PyList([j \in 1..n |-> RuleTrace(i, j)])

ResultSamples ==
    { PyDict(("x" :> PyFloat(3)) @@ ("ok" :> PyBool(TRUE))),
      PyDict(("when" :> PyDate(2024, 1, 15)) @@ ("note" :> PyStr(<<>>))
             @@ ("tags" :> PyList(<<PyBool(FALSE), PyInt(14)>>))) }

RecordShapes == ((0 - 1)..MaxTraces) \X ResultSamples

DecisionRecord(i, shape) ==
    PyDict(("Result" :> shape[2]) @@ ("Executed Rule" :> ExecutedRuleOf(i, shape[1])))

\* what decide / decideTables may return as newData
DecideOutcomes ==
    {DecisionRecord(0, shape) : shape \in RecordShapes}
    \cup { PyList([i \in 1..Len(shapes) |-> DecisionRecord(i, shapes[i])]) :
             shapes \in UNION {[1..m -> RecordShapes] : m \in 0..MaxRecords} }

EngineErrors == [key \in {"errors"} |-> PyList(<<PyStr(<<"n", "o">>)>>)]
EngineStatuses == {NoErrors, EngineErrors}

\* dmnRules.getSheets(): the decision tables of the rules, by sheet name
getSheets(dmnRules) == {"Sheet1"}

-----------------------------------------------------------------------------
(* Requests *)

JSON == "application/json"
FORM == "application/x-www-form-urlencoded"

GoodToken == Token(PyDate(2024, 1, 15))

\* JSON bodies: dicts of variables
JsonBodies ==
    { PyDict(("n" :> PyInt(5)) @@ ("d" :> GoodToken) @@ ("l" :> PyList(<<PyInt(5), BadToken>>))),
      PyDict(EmptyMap) }

\* form data: field -> text
FormBodies ==
    { ("n" :> <<" ", "5", " ">>) @@ ("d" :> GoodToken.v) @@ ("e" :> <<" ", " ">>)
      @@ ("s" :> <<"a", "b", "c">>) @@ ("l" :> <<"[", "5", "]">>) }

AcceptHeaders == {<<"text/html">>, <<"text/html", JSON>>}

RECURSIVE lstrip(_)
lstrip(chars) == IF chars # <<>> /\ Head(chars) = " " THEN lstrip(Tail(chars)) ELSE chars
RECURSIVE rstrip(_)
rstrip(chars) ==
    IF chars # <<>> /\ chars[Len(chars)] = " "
    THEN rstrip(SubSeq(chars, 1, Len(chars) - 1)) ELSE chars
\* str.strip()
strip(chars) == rstrip(lstrip(chars))

\* ast.literal_eval, for the texts of the model: <<text, value>>; any other
\* text raises
LiteralEvalTable ==
    { <<<<"5">>, PyInt(5)>>, <<<<"[", "5", "]">>, PyList(<<PyInt(5)>>)>>,
      <<<<"T", "r", "u", "e">>, PyBool(TRUE)>>,
      <<<<"1", ".", "5">>, PyFloat(3)>>,
      <<<<"N", "o", "n", "e">>, PyNone>>,
      <<<<"'", "a", "'">>, PyStr(<<"a">>)>>,
      <<<<"(", "5", ",", ")">>, PyTuple(<<PyInt(5)>>)>>,
      <<<<"{", "'", "a", "'", ":", " ", "5", "}">>, PyDict("a" :> PyInt(5))>>,
      <<<<"'">> \o GoodToken.v \o <<"'">>, GoodToken>>,
      <<<<"[", "'">> \o GoodToken.v \o <<"'", "]">>, PyList(<<GoodToken>>)>> }

\* an exception leaves the call
Raise(exc) == [k |-> "raise", v |-> exc]

\* ast.literal_eval(text): the value, or the exception raised
literal_eval(chars) ==
    IF \E entry \in LiteralEvalTable : entry[1] = chars
    THEN (CHOOSE entry \in LiteralEvalTable : entry[1] = chars)[2]
    ELSE Raise("ValueError")

\* convertInWeb without the try / except
convertInWebUnguarded(thisValue) ==
    IF ~IsInstanceStr(thisValue) THEN thisValue
    ELSE LET newValue == literal_eval(thisValue.v)
         IN  IF newValue.k = "raise" THEN newValue ELSE convertIn(newValue)

convertInWeb(thisValue) ==
    IF ~IsInstanceStr(thisValue) THEN thisValue
    ELSE LET evaluated == literal_eval(thisValue.v)
             newValue == IF evaluated.k = "raise" THEN thisValue ELSE evaluated
         IN  convertIn(newValue)

\* the texts of form fields: stripped and not empty
WebTexts ==
    {PyStr(entry[1]) : entry \in LiteralEvalTable}
    \cup { PyStr(<<"a", "b", "c">>), PyStr(<<"[", "5">>), PyStr(<<"5", " ", "k", "g">>),
           PyStr(<<"t", "r", "u", "e">>), PyStr(<<"@">>), PyStr(AtQuote),
           GoodToken, BadToken, Token(PyTimedelta(0 - 9)), Token(PyInt(14)) }

\* convertInWeb(thisValue): thisValue is the stripped text of a form field
\* that is not empty
CallConvertInWeb ==
    /\ Idle
    /\ \E thisValue \in WebTexts :
        /\ arg0' = thisValue
        /\ arg' = thisValue
        /\ ret' = convertInWeb(thisValue)
        /\ retIsArg' = (literal_eval(thisValue.v).k = "raise" /\ convertIn(thisValue) = thisValue)
    /\ op' = "convertInWeb"
    /\ UNCHANGED <<decisionServices, handlerVars, threads>>

\* the data handed to the engine
RequestData(req) ==
    IF req.contentType = FORM
    THEN PyDict([variable \in {f \in DOMAIN req.body : strip(req.body[f]) # <<>>} |->
                    convertInWeb(PyStr(strip(req.body[variable])))])
    ELSE PyDict([variable \in DOMAIN req.body.v |-> convertIn(req.body.v[variable])])

\* the loop over request.accept_mimetypes
WantsJSON(req) == \E i \in 1..Len(req.accept) : req.accept[i] = JSON

-----------------------------------------------------------------------------
(* Responses *)

Html(code, page) == [kind |-> "html", code |-> code, body |-> page]
Fault(exc) == [kind |-> "fault", code |-> 500, body |-> [exc |-> exc]]

RECURSIVE jsonify(_)
\* flask.jsonify: a tuple is written as a JSON array, like a list
jsonify(x) ==
    IF x.k \in {"tuple", "list"} THEN PyList([i \in 1..Len(x.v) |-> jsonify(x.v[i])])
    ELSE IF x.k = "dict" THEN PyDict([key \in DOMAIN x.v |-> jsonify(x.v[key])])
    ELSE x

Json(returnData) == [kind |-> "json", code |-> 200, body |-> jsonify(returnData)]

NoSuchService == Html(400, [page |-> "no such Decision Service"])

BadStatusNormalizes(status, wantsJSON) ==
    IF wantsJSON
    THEN Json(PyDict(("Result" :> PyDict(EmptyMap)) @@ ("Executed Rule" :> PyList(<<>>))
                     @@ ("Status" :> PyDict(EmptyMap))))
    ELSE Html(400, [page |-> "bad status", errors |-> status["errors"]])

\* the response when 'errors' is in status
BadStatus(status, wantsJSON) ==
    IF wantsJSON
    THEN Json(PyDict(("Result" :> PyDict(EmptyMap)) @@ ("Executed Rule" :> PyList(<<>>))
                     @@ ("Status" :> PyDict(status))))
    ELSE Html(400, [page |-> "bad status", errors |-> status["errors"]])

-----------------------------------------------------------------------------
(* The result normaliser of decision_service and decision_service_table *)

\* (executedDecision, decisionTable, ruleId) = x succeeds for three items
CanUnpack3(x) == x.k \in {"tuple", "list"} /\ Len(x.v) = 3

\* append([]) and then the three items of x
TripleRow(x) == PyList(<<x.v[1], x.v[2], x.v[3]>>)

RowsOfFirstTrace(record) ==
    LET executedRule == record.v["Executed Rule"]
    IN  IF IsInstanceList(executedRule)
        THEN [j \in 1..(IF Len(executedRule.v) > 0 THEN 1 ELSE 0) |->
                 TripleRow(executedRule.v[j])]
        ELSE <<TripleRow(executedRule)>>

\* what one record of a list adds to returnData['Executed Rule']
RowsOfRecord(record) ==
    LET executedRule == record.v["Executed Rule"]
    IN  IF IsInstanceList(executedRule)
        THEN [j \in 1..Len(executedRule.v) |-> TripleRow(executedRule.v[j])]
        ELSE <<TripleRow(executedRule)>>

RECURSIVE RowsOfRecords(_, _)
\* the loop over range(len(newData)), for the first n records
RowsOfRecords(records, n) ==
    IF n = 0 THEN <<>>
    ELSE RowsOfRecords(records, n - 1) \o RowsOfRecord(records[n])

\* the three items of x appended to returnData['Executed Rule'] itself
FlatRow(x) == <<x.v[1], x.v[2], x.v[3]>>

Normalized(rows, reporting) == [ok |-> TRUE, rows |-> rows, reporting |-> reporting]
Raised(exc) == [ok |-> FALSE, exc |-> exc]

\* decision_service: 'Executed Rule' and the record whose 'Result' is reported
NormalizeDecide(newData) ==
    IF IsInstanceList(newData)
    THEN IF Len(newData.v) = 0
         THEN Raised("IndexError")
         ELSE Normalized(RowsOfRecords(newData.v, Len(newData.v)), newData.v[Len(newData.v)])
    ELSE IF "Executed Rule" \in DOMAIN newData.v
    THEN IF CanUnpack3(newData.v["Executed Rule"])
         THEN Normalized(FlatRow(newData.v["Executed Rule"]), newData)
         ELSE Raised("ValueError")
    ELSE Normalized(<<>>, newData)

\* decision_service_table: the same
NormalizeDecideTables(newData) ==
    IF IsInstanceList(newData)
    THEN Normalized(RowsOfRecords(newData.v, Len(newData.v)),
                    IF Len(newData.v) > 0 THEN newData.v[Len(newData.v)] ELSE newData)
    ELSE IF IsInstanceList(newData.v["Executed Rule"])
    THEN Normalized(RowsOfRecord(newData), newData)
    ELSE IF CanUnpack3(newData.v["Executed Rule"])
    THEN Normalized(FlatRow(newData.v["Executed Rule"]), newData)
    ELSE Raised("ValueError")

\* returnData: 'Executed Rule', then 'Result' with convertOut of every value
\* of the reporting record's 'Result', then 'Status'
Envelope(normalized, status) ==
    IF ~normalized.ok THEN Fault(normalized.exc)
    ELSE IF ~IsInstanceDict(normalized.reporting) THEN Fault("TypeError")
    ELSE LET result == normalized.reporting.v["Result"].v
         IN  Json(PyDict(("Executed Rule" :> PyList(normalized.rows))
                         @@ ("Result" :> PyDict([variable \in DOMAIN result |->
                                                    convertOut(result[variable])]))
                         @@ ("Status" :> PyDict(status))))

\* the values handed to convertOut while the envelope is built
ConvertOutCalls(normalized) ==
    IF normalized.ok /\ IsInstanceDict(normalized.reporting)
    THEN LET result == normalized.reporting.v["Result"].v
         IN  {result[variable] : variable \in DOMAIN result}
    ELSE {}

\* a record after the envelope is built: convertOut has updated in place the
\* dicts and lists among the values of its 'Result'
RecordAfter(record) ==
    LET result == record.v["Result"].v
    IN  PyDict(("Result" :> PyDict([variable \in DOMAIN result |->
                                       IF IsInstanceDict(result[variable])
                                          \/ IsInstanceList(result[variable])
                                       THEN convertOut(result[variable])
                                       ELSE result[variable]]))
               @@ ("Executed Rule" :> record.v["Executed Rule"]))

\* the engine's newData after the envelope is built
NewDataAfter(newData, normalized) ==
    IF ~(normalized.ok /\ IsInstanceDict(normalized.reporting)) THEN newData
    ELSE IF IsInstanceList(newData)
    THEN PyList([i \in 1..Len(newData.v) |->
                    IF i = Len(newData.v) THEN RecordAfter(newData.v[i]) ELSE newData.v[i]])
    ELSE RecordAfter(newData)

\* the page that shows newData[0] of a list
DecisionPageFirstRecord(newData, guarded) ==
    IF IsInstanceList(newData) /\ Len(newData.v) = 0
    THEN Fault(IF guarded THEN "TypeError" ELSE "IndexError")
    ELSE LET record == IF IsInstanceList(newData) THEN newData.v[1] ELSE newData
             result == record.v["Result"].v
             executedRule == record.v["Executed Rule"]
         IN  IF IsInstanceList(executedRule)
                /\ \E j \in 1..Len(executedRule.v) : ~CanUnpack3(executedRule.v[j])
             THEN Fault("ValueError")
             ELSE IF ~IsInstanceList(executedRule) /\ ~CanUnpack3(executedRule)
             THEN Fault("ValueError")
             ELSE Html(200,
                    [page |-> "decision",
                     \* one row per variable whose value is not '': the cell is str(value)
                     results |-> [variable \in {x \in DOMAIN result : result[x] # PyStr(<<>>)}
                                     |-> result[variable]],
                     deciders |-> IF IsInstanceList(executedRule)
                                  THEN [j \in 1..Len(executedRule.v) |->
                                           FlatRow(executedRule.v[j])]
                                  ELSE <<FlatRow(executedRule)>>])

\* the HTML page of a decision: the record shown is newData[-1] of a list
\* (decision_service), or of a list that is not empty (decision_service_table)
DecisionPage(newData, guarded) ==
    IF IsInstanceList(newData) /\ Len(newData.v) = 0
    THEN Fault(IF guarded THEN "TypeError" ELSE "IndexError")
    ELSE LET record == IF IsInstanceList(newData) THEN newData.v[Len(newData.v)] ELSE newData
             result == record.v["Result"].v
             executedRule == record.v["Executed Rule"]
         IN  IF IsInstanceList(executedRule)
                /\ \E j \in 1..Len(executedRule.v) : ~CanUnpack3(executedRule.v[j])
             THEN Fault("ValueError")
             ELSE IF ~IsInstanceList(executedRule) /\ ~CanUnpack3(executedRule)
             THEN Fault("ValueError")
             ELSE Html(200,
                    [page |-> "decision",
                     \* one row per variable whose value is not '': the cell is str(value)
                     results |-> [variable \in {x \in DOMAIN result : result[x] # PyStr(<<>>)}
                                     |-> result[variable]],
                     deciders |-> IF IsInstanceList(executedRule)
                                  THEN [j \in 1..Len(executedRule.v) |->
                                           FlatRow(executedRule.v[j])]
                                  ELSE <<FlatRow(executedRule)>>])

-----------------------------------------------------------------------------
(* The handlers *)

Excel_EXTENSIONS == {"xlsx", "xlsm"}
ALLOWED_EXTENSIONS == {"xlsx", "xlsm", "xml", "dmn"}

\* extn[1:].lower(), for the extensions of the model
LowerExtn(extn) ==
    CASE extn = ".xlsx" -> "xlsx"
      [] extn = ".XLSM" -> "xlsm"
      [] extn = ".XML" -> "xml"
      [] extn = ".dmn" -> "dmn"
      [] extn = ".txt" -> "txt"
      [] extn = "" -> ""

\* uploaded files: <<name, extn>> is os.path.splitext(os.path.basename(filename));
\* readable: load_workbook accepts the content; valid: use / useXML report no 'errors'
UploadNames ==
    {<<"svc", ".xlsx">>, <<"svc", ".XML">>, <<"svc", ".txt">>, <<"", "">>,
     <<"other", ".XLSM">>}
UploadContents ==
    { [rules |-> "rules1", readable |-> TRUE, valid |-> TRUE],
      [rules |-> "rules2", readable |-> FALSE, valid |-> TRUE],
      [rules |-> "rules3", readable |-> TRUE, valid |-> FALSE] }

ServiceNames == {"svc", "ghost"}
SheetNames == {"Sheet1", "nosheet"}

\* 'errors' in status, without the test
LoadNeverFailed(status) == FALSE

\* 'errors' in status
LoadFailed(status) == "errors" \in DOMAIN status

\* decisionServices[decisionServiceName] = ..., for a name that is new only
RegisteredOnce(services, decisionServiceName, dmnRules) ==
    [n \in DOMAIN services \cup {decisionServiceName} |->
        IF n \in DOMAIN services THEN services[n] ELSE dmnRules]

\* decisionServices[decisionServiceName] = copy.deepcopy(dmnRules)
Registered(services, decisionServiceName, dmnRules) ==
    [n \in DOMAIN services \cup {decisionServiceName} |->
        IF n = decisionServiceName THEN dmnRules ELSE services[n]]

\* upload_file, POST /upload
upload_file ==
    /\ Idle
    /\ \E hasFile \in BOOLEAN, file \in UploadNames, content \in UploadContents :
        LET name == file[1]
            extn == file[2]
            isExcel == LowerExtn(extn) \in Excel_EXTENSIONS
            status == IF content.valid THEN NoErrors ELSE EngineErrors
        IN  /\ request' = [url |-> "/upload", hasFile |-> hasFile, name |-> name,
                           extn |-> extn, content |-> content]
            /\ IF ~hasFile
               THEN /\ response' = Html(400, [page |-> "No file part"])
                    /\ UNCHANGED decisionServices
               ELSE IF name = "" /\ extn = ""
               THEN /\ response' = Html(400, [page |-> "No filename"])
                    /\ UNCHANGED decisionServices
               ELSE IF LowerExtn(extn) \notin ALLOWED_EXTENSIONS
               THEN /\ response' = Html(400, [page |-> "invalid file extension"])
                    /\ UNCHANGED decisionServices
               ELSE IF isExcel /\ ~content.readable
               THEN /\ response' = Html(400, [page |-> "Bad Excel workbook"])
                    /\ UNCHANGED decisionServices
               ELSE IF LoadFailed(status)
               THEN /\ response' = Html(400, [page |-> "Invalid DMN",
                                              errors |-> status["errors"]])
                    /\ UNCHANGED decisionServices
               ELSE /\ response' = Html(201, [page |-> "uploaded"])
                    /\ decisionServices' =
                          Registered(decisionServices, name, [rules |-> content.rules])
    /\ op' = "upload_file"
    /\ engine' = NoEngine
    /\ UNCHANGED <<codecVars, threads>>

\* delete_decision_service, GET /delete/<decisionServiceName>
delete_decision_service ==
    /\ Idle
    /\ \E decisionServiceName \in ServiceNames :
        /\ request' = [url |-> "/delete", name |-> decisionServiceName]
        /\ IF decisionServiceName \notin DOMAIN decisionServices
           THEN /\ response' = NoSuchService
                /\ UNCHANGED decisionServices
           ELSE /\ response' = Html(200, [page |-> "deleted"])
                /\ decisionServices' =
                      [n \in DOMAIN decisionServices \ {decisionServiceName} |->
                          decisionServices[n]]
    /\ op' = "delete_decision_service"
    /\ engine' = NoEngine
    /\ UNCHANGED <<codecVars, threads>>

DecideRequests(url, sheets) ==
    { [url |-> url, name |-> name, sheet |-> sheet, contentType |-> contentType,
       body |-> body, accept |-> accept] :
        name \in ServiceNames, sheet \in sheets,
        contentType \in {JSON}, body \in JsonBodies, accept \in AcceptHeaders }
    \cup
    { [url |-> url, name |-> name, sheet |-> sheet, contentType |-> contentType,
       body |-> body, accept |-> accept] :
        name \in ServiceNames, sheet \in sheets,
        contentType \in {FORM}, body \in FormBodies, accept \in AcceptHeaders }

\* the part of both handlers after the engine has answered
Decided(req, call, status, newData, normalized, guarded) ==
    LET wantsJSON == WantsJSON(req)
        built == ("errors" \notin DOMAIN status) /\ wantsJSON
    IN  /\ engine' = [calls |-> <<call>>, status |-> status, newData |-> newData,
                      after |-> IF built THEN NewDataAfter(newData, normalized) ELSE newData,
                      converted |-> IF built THEN ConvertOutCalls(normalized) ELSE {}]
        /\ response' = IF "errors" \in DOMAIN status THEN BadStatus(status, wantsJSON)
                       ELSE IF wantsJSON THEN Envelope(normalized, status)
                       ELSE DecisionPage(newData, guarded)

\* decision_service, POST /api/<decisionServiceName>
decision_service ==
    /\ Idle
    /\ \E req \in DecideRequests("/api", {""}) :
        /\ request' = req
        /\ \/ /\ req.name \notin DOMAIN decisionServices
              /\ response' = NoSuchService
              /\ engine' = NoEngine
           \/ /\ req.name \in DOMAIN decisionServices
              /\ \E status \in EngineStatuses, newData \in DecideOutcomes :
                    Decided(req,
                            [fn |-> "decide", dmnRules |-> decisionServices[req.name],
                             data |-> RequestData(req), tables |-> <<>>],
                            status, newData, NormalizeDecide(newData), FALSE)
    /\ op' = "decision_service"
    /\ UNCHANGED <<decisionServices, codecVars, threads>>

\* decision_service_table, POST /api/<decisionServiceName>_table/<sheet>
decision_service_table ==
    /\ Idle
    /\ \E req \in DecideRequests("/api_table", SheetNames) :
        /\ request' = req
        /\ \/ /\ req.name \notin DOMAIN decisionServices
              /\ response' = NoSuchService
              /\ engine' = NoEngine
           \/ /\ req.name \in DOMAIN decisionServices
              /\ \E status \in EngineStatuses, newData \in DecideOutcomes :
                    Decided(req,
                            [fn |-> "decideTables", dmnRules |-> decisionServices[req.name],
                             data |-> RequestData(req), tables |-> <<req.sheet>>],
                            status, newData, NormalizeDecideTables(newData), TRUE)
    /\ op' = "decision_service_table"
    /\ UNCHANGED <<decisionServices, codecVars, threads>>

-----------------------------------------------------------------------------
(* mkOpenAPI, mkUploadOpenAPI, mkDeleteOpenAPI: the OpenAPI text, as the list *)
(* thisAPI of its lines (the value returned is '\n'.join(thisAPI)).  A line   *)
(* is the sequence of the pieces of its template and of the characters of     *)
(* the values formatted into it.                                              *)

XFH == "X-Forwarded-Host"
XFP == "X-Forwarded-Proto"

\* the first place of sep in chars, 0 when there is none
RECURSIVE FindChar(_, _, _)
FindChar(chars, sep, i) ==
    IF i > Len(chars) THEN 0
    ELSE IF chars[i] = sep THEN i
    ELSE FindChar(chars, sep, i + 1)

RECURSIVE split(_, _)
\* str.split(sep): a text without sep, the empty text too, gives one part
split(chars, sep) ==
    LET i == FindChar(chars, sep, 1)
    IN  IF i = 0 THEN <<chars>>
        ELSE <<SubSeq(chars, 1, i - 1)>> \o split(SubSeq(chars, i + 1, Len(chars)), sep)

RECURSIVE quote(_)
\* urllib.parse.quote, for the characters of the model: a letter or a digit
\* stays, a space becomes %20
quote(chars) ==
    IF chars = <<>> THEN <<>>
    ELSE (IF Head(chars) = " " THEN <<"%", "2", "0">> ELSE <<Head(chars)>>)
         \o quote(Tail(chars))

Text(lines) == [k |-> "text", v |-> lines]

ServersBlock(url) ==
    << <<"servers:">>, <<"  [">>, <<"    \"url\":\"">> \o url \o <<"\"">>, <<"  ]">> >>

\* the lines about the servers, from request.headers
Servers(headers) ==
    IF XFH \in DOMAIN headers /\ XFP \in DOMAIN headers
    THEN Text(ServersBlock(headers[XFP] \o <<"://">> \o headers[XFH]))
    ELSE IF "Host" \in DOMAIN headers
    THEN Text(ServersBlock(headers["Host"]))
    ELSE IF "Forwarded" \in DOMAIN headers
    THEN LET forwards == split(headers["Forwarded"], ";")
             pair == split(forwards[1], "=")
         IN  \* forwards[0].split('=')[1]
             IF Len(pair) < 2 THEN Raise("IndexError")
             ELSE Text(ServersBlock(pair[2]))
    ELSE Text(<<>>)

RECURSIVE Concat(_)
\* the lines of every part, one part after the other
Concat(parts) == IF parts = <<>> THEN <<>> ELSE Head(parts) \o Concat(Tail(parts))

\* a glossary is the dict of the engine in its iteration order: a sequence of
\* [concept, variables], variables the keys of glossary[concept] in order

\* variable[len(concept)+1:]
AfterConcept(variable, concept) == SubSeq(variable, Len(concept) + 2, Len(variable))

\* the lines a concept that is not 'Data' gets first: its own property
ConceptWrapper(entry) ==
    << <<"        \"">> \o entry.concept \o <<"\":">>,
       <<"          type: array">>,
       <<"          items:">>,
       <<"            type: object">>,
       <<"            properties:">> >>
    \o Concat([n \in 1..Len(entry.variables) |->
                 << <<"              \"">> \o AfterConcept(entry.variables[n], entry.concept)
                        \o <<"\":">>,
                    <<"                type: string">> >>])

\* the second loop, `for variable in glossary[concept]`, of every concept
HoistedVariables(entry) ==
    Concat([n \in 1..Len(entry.variables) |->
              << <<"        \"">> \o entry.variables[n] \o <<"\":">>,
                 <<"          type: string">> >>])

\* the lines of one concept in decisionInputData
InputLinesElse(entry) ==
    IF entry.concept # <<"D", "a", "t", "a">> THEN ConceptWrapper(entry)
    ELSE HoistedVariables(entry)

InputLines(entry) ==
    (IF entry.concept # <<"D", "a", "t", "a">> THEN ConceptWrapper(entry) ELSE <<>>)
    \o HoistedVariables(entry)

\* the variables of a concept taken last to first
ResultLinesReversed(entry) ==
    Concat([n \in 1..Len(entry.variables) |->
              << <<"            \"">> \o entry.variables[Len(entry.variables) + 1 - n] \o <<"\":">>,
                 <<"              type: object">>,
                 <<"              additionalProperties:">>,
                 <<"                oneOf:">>,
                 <<"                  - type: string">>,
                 <<"                  - type: array">>,
                 <<"                    items:">>,
                 <<"                      type: string">> >>])

\* the lines of one concept under "Result" in decisionOutputData
ResultLines(entry) ==
    Concat([n \in 1..Len(entry.variables) |->
              << <<"            \"">> \o entry.variables[n] \o <<"\":">>,
                 <<"              type: object">>,
                 <<"              additionalProperties:">>,
                 <<"                oneOf:">>,
                 <<"                  - type: string">>,
                 <<"                  - type: array">>,
                 <<"                    items:">>,
                 <<"                      type: string">> >>])

\* mkOpenAPI(glossary, name, sheet), request.headers given as headers
mkOpenAPI(glossary, name, sheet, headers) ==
    LET servers == Servers(headers)
        title == IF sheet = PyNone
                 THEN <<"  title: Decision Service ">> \o name
                 ELSE <<"  title: Decision Service ">> \o name
                      \o <<" - Decision Table ">> \o sheet.v
        path == IF sheet = PyNone
                THEN <<"  /api/">> \o quote(name) \o <<":">>
                ELSE <<"  /api/">> \o quote(name) \o <<"_table/">> \o quote(sheet.v) \o <<":">>
    IN  IF servers.k = "raise" THEN servers
        ELSE Text(
            << <<"openapi: 3.0.0">>, <<"info:">>, title, <<"  version: 1.0.0">> >>
            \o servers.v
            \o << <<"paths:">>, path, <<"    post:">>,
                  <<"      summary: Use the ">> \o name
                      \o <<" Decision Service to make a decision based upon the passed data">>,
                  <<"      operationId: decide">>,
                  <<"      requestBody:">>,
                  <<"        description: json structure with one tag per item of passed data">>,
                  <<"        content:">>,
                  <<"          application/json:">>,
                  <<"            schema:">>,
                  <<"              $ref: '#/components/schemas/decisionInputData'">>,
                  <<"        required: true">>,
                  <<"      responses:">>,
                  <<"        200:">>,
                  <<"          description: Success">>,
                  <<"          content:">>,
                  <<"            application/json:">>,
                  <<"              schema:">>,
                  <<"                $ref: '#/components/schemas/decisionOutputData'">>,
                  <<"components:">>,
                  <<"  schemas:">>,
                  <<"    decisionInputData:">>,
                  <<"      type: object">>,
                  <<"      properties:">> >>
            \o Concat([c \in 1..Len(glossary) |-> InputLines(glossary[c])])
            \o << <<"    decisionOutputData:">>,
                  <<"      type: object">>,
                  <<"      properties:">>,
                  <<"        \"Result\":">>,
                  <<"          type: object">>,
                  <<"          properties:">> >>
            \o Concat([c \in 1..Len(glossary) |-> ResultLines(glossary[c])])
            \o << <<"        \"Executed Rule\":">>,
                  <<"          type: array">>,
                  <<"          items:">>,
                  <<"            additionalProperties:">>,
                  <<"              oneOf:">>,
                  <<"                - type: string">>,
                  <<"                - type: array">>,
                  <<"                  items:">>,
                  <<"                    type: string">>,
                  <<"        \"Status\":">>,
                  <<"          type: object">>,
                  <<"          properties:">>,
                  <<"            \"errors\":">>,
                  <<"              type: array">>,
                  <<"              items:">>,
                  <<"                type: string">>,
                  <<"      required: [">>,
                  <<"        \"Result\",">>,
                  <<"        \"Executed Rule\",">>,
                  <<"        \"Status\"">>,
                  <<"      ]">> >>)

\* mkUploadOpenAPI(), request.headers given as headers
mkUploadOpenAPI(headers) ==
    LET servers == Servers(headers)
    IN  IF servers.k = "raise" THEN servers
        ELSE Text(
            << <<"openapi: 3.0.0">>, <<"info:">>,
               <<"  title: Decision Service file upload API">>, <<"  version: 1.0.0">> >>
            \o servers.v
            \o << <<"paths:">>,
                  <<"  /upload:">>,
                  <<"    post:">>,
                  <<"      summary: Upload a file to DecisionCentral">>,
                  <<"      operationId: upload">>,
                  <<"      requestBody:">>,
                  <<"        description: json structure with one tag per item of passed data">>,
                  <<"        content:">>,
                  <<"          multipart/form-data:">>,
                  <<"            schema:">>,
                  <<"              $ref: '#/components/schemas/FileUpload'">>,
                  <<"        required: true">>,
                  <<"      responses:">>,
                  <<"        201:">>,
                  <<"          description: Item created">>,
                  <<"          content:">>,
                  <<"            text/html:">>,
                  <<"              schema:">>,
                  <<"                type: string">>,
                  <<"        400:">>,
                  <<"          description: Invalid input, object invalid">>,
                  <<"components:">>,
                  <<"  schemas:">>,
                  <<"    FileUpload:">>,
                  <<"      type: object">>,
                  <<"      properties:">>,
                  <<"        file:">>,
                  <<"          type: string">>,
                  <<"          format: binary">> >>)

\* mkDeleteOpenAPI(name), request.headers given as headers
mkDeleteOpenAPI(name, headers) ==
    LET servers == Servers(headers)
    IN  IF servers.k = "raise" THEN servers
        ELSE Text(
            << <<"openapi: 3.0.0">>, <<"info:">>,
               <<"  title: Delete Decision Service API">>, <<"  version: 1.0.0">> >>
            \o servers.v
            \o << <<"paths:">>, <<"  /delete/">> \o quote(name) \o <<":">>,
                  <<"    get:">>,
                  <<"      summary: Delete a DecisionCentral Decision Service">>,
                  <<"      operationId: delete">>,
                  <<"      responses:">>,
                  <<"        200:">>,
                  <<"          description: Item deleted">>,
                  <<"          content:">>,
                  <<"            text/html:">>,
                  <<"              schema:">>,
                  <<"                type: string">>,
                  <<"        400:">>,
                  <<"          description: Invalid request">> >>)

\* the request headers the three functions read, each present or absent
HeaderTexts(header) ==
    CASE header = XFH -> {<<"p", "x">>}
      [] header = XFP -> {<<"h", "t", "t", "p", "s">>}
      [] header = "Host" -> {<<"a", ":", "5">>}
      [] header = "Forwarded" ->
            { <<"f", "=", "o", ";", "b", "=", "c">>, <<"f", "=", "o">>,
              <<"f", "=", "o", "=", "u">>, <<"f", "o", "r">>, <<>> }

HeaderNames == {XFH, XFP, "Host", "Forwarded"}

RequestHeaders ==
    UNION { {headers \in [present -> UNION {HeaderTexts(n) : n \in HeaderNames}] :
                \A header \in present : headers[header] \in HeaderTexts(header)} :
            present \in SUBSET HeaderNames }

Data == <<"D", "a", "t", "a">>

\* the concepts of a glossary with their variables in order
GlossaryEntries ==
    { [concept |-> Data, variables |-> <<<<"x">>, <<"y">>>>],
      [concept |-> Data, variables |-> <<<<"y">>, <<"x">>>>],
      [concept |-> <<"P">>, variables |-> <<<<"P", ".", "a">>, <<"P", ".", "b">>>>],
      [concept |-> <<"P">>, variables |-> <<<<"P", ".", "b">>, <<"P", ".", "a">>>>],
      [concept |-> <<"Q">>, variables |-> <<<<"Q", ".", "c">>>>] }

\* dmnRules.getGlossary() / getTableGlossary(sheet): the concepts are the keys
\* of a dict, so no concept occurs twice
Glossaries ==
    { glossary \in UNION {[1..n -> GlossaryEntries] : n \in 0..MaxConcepts} :
        \A c, d \in 1..Len(glossary) : c # d => glossary[c].concept # glossary[d].concept }

ApiNames == {<<"s", "v", "c">>, <<"a", " ", "b">>}
ApiSheets == {PyNone, PyStr(<<"S", " ", "1">>)}

CallMkOpenAPI ==
    /\ Idle
    /\ \E glossary \in Glossaries, name \in ApiNames, sheet \in ApiSheets,
          headers \in RequestHeaders :
        /\ request' = [url |-> "/show/api", headers |-> headers]
        /\ arg0' = [k |-> "args", v |-> [glossary |-> glossary, name |-> name, sheet |-> sheet]]
        /\ ret' = mkOpenAPI(glossary, name, sheet, headers)
    /\ op' = "mkOpenAPI"
    /\ UNCHANGED <<decisionServices, arg, retIsArg, engine, response, threads>>

CallMkUploadOpenAPI ==
    /\ Idle
    /\ \E headers \in RequestHeaders :
        /\ request' = [url |-> "/upload/api", headers |-> headers]
        /\ arg0' = [k |-> "args", v |-> <<>>]
        /\ ret' = mkUploadOpenAPI(headers)
    /\ op' = "mkUploadOpenAPI"
    /\ UNCHANGED <<decisionServices, arg, retIsArg, engine, response, threads>>

CallMkDeleteOpenAPI ==
    /\ Idle
    /\ \E name \in ApiNames, headers \in RequestHeaders :
        /\ request' = [url |-> "/delete/api", headers |-> headers]
        /\ arg0' = [k |-> "args", v |-> [name |-> name]]
        /\ ret' = mkDeleteOpenAPI(name, headers)
    /\ op' = "mkDeleteOpenAPI"
    /\ UNCHANGED <<decisionServices, arg, retIsArg, engine, response, threads>>

-----------------------------------------------------------------------------
(* The handlers that show and download: /show, /show/<part>, /show_api,     *)
(* /download, /download_delete                                              *)

\* the characters of the names of the model
CharsOf(name) ==
    CASE name = "svc" -> <<"s", "v", "c">>
      [] name = "ghost" -> <<"g", "h", "o", "s", "t">>
      [] name = "Sheet1" -> <<"S", "h", "e", "e", "t", "1">>
      [] name = "nosheet" -> <<"n", "o", "s", "h", "e", "e", "t">>

\* dmnRules.getGlossary() and dmnRules.getTableGlossary(sheet)
getGlossary(dmnRules) ==
    << [concept |-> <<"P">>, variables |-> <<<<"P", ".", "a">>, <<"P", ".", "b">>>>],
       [concept |-> Data, variables |-> <<<<"x">>, <<"y">>>>] >>
getTableGlossary(dmnRules, sheet) ==
    << [concept |-> Data, variables |-> <<<<"x">>, <<"y">>>>] >>

\* a call of the engine that is not a decision
Asked(fn, dmnRules, tables) ==
    [fn |-> fn, dmnRules |-> dmnRules, data |-> PyNone, tables |-> tables]

\* the headers of the requests for a page or a file
PageHeaders == {headers \in RequestHeaders : Cardinality(DOMAIN headers) = 1
                                             /\ DOMAIN headers \subseteq {"Host", "Forwarded"}}

\* werkzeug's secure_filename, for the characters of the model: letters,
\* digits, '.' and '_' stay, a space becomes '_'
RECURSIVE secure_filename(_)
secure_filename(chars) ==
    IF chars = <<>> THEN <<>>
    ELSE <<IF Head(chars) = " " THEN "_" ELSE Head(chars)>> \o secure_filename(Tail(chars))

NoSuchTable == Html(400, [page |-> "no such Decision Table"])

\* the page with the OpenAPI text in <pre>
ApiPage(openapi) ==
    IF openapi.k = "raise" THEN Fault(openapi.v)
    ELSE Html(200, [page |-> "api", openapi |-> openapi.v])

\* send_file(yaml, as_attachment=True, download_name=name)
ApiFile(openapi, name) ==
    IF openapi.k = "raise" THEN Fault(openapi.v)
    ELSE [kind |-> "file", code |-> 200,
          body |-> [download_name |-> secure_filename(name), yaml |-> openapi.v]]

\* the registry check, answering with the page of an empty registry
NotRegisteredIgnored ==
    /\ engine' = NoEngine
    /\ response' = Html(200, [page |-> "splash"])

\* the part of a handler after `decisionServiceName not in decisionServices`
\* was found false: the engine calls made and the response
Answer(calls, answer) ==
    /\ engine' = [NoEngine EXCEPT !.calls = calls]
    /\ response' = answer

NotRegistered ==
    /\ engine' = NoEngine
    /\ response' = NoSuchService

\* show_decision_service, GET /show/<decisionServiceName>
show_decision_service ==
    /\ Idle
    /\ \E decisionServiceName \in ServiceNames :
        /\ request' = [url |-> "/show", name |-> decisionServiceName]
        /\ IF decisionServiceName \notin DOMAIN decisionServices THEN NotRegistered
           ELSE LET dmnRules == decisionServices[decisionServiceName]
                IN  Answer(<<Asked("getGlossary", dmnRules, <<>>),
                             Asked("getGlossaryNames", dmnRules, <<>>),
                             Asked("getSheets", dmnRules, <<>>)>>,
                           Html(200, [page |-> "service", glossary |-> getGlossary(dmnRules),
                                      sheets |-> getSheets(dmnRules)]))
    /\ op' = "show_decision_service"
    /\ UNCHANGED <<decisionServices, codecVars, threads>>

PartNames == {"glossary", "decision", "api"} \cup SheetNames

\* show_decision_service_part, GET /show/<decisionServiceName>/<part>
show_decision_service_part ==
    /\ Idle
    /\ \E decisionServiceName \in ServiceNames, part \in PartNames, headers \in PageHeaders :
        /\ request' = [url |-> "/show/part", name |-> decisionServiceName, sheet |-> part,
                       headers |-> headers]
        /\ IF decisionServiceName \notin DOMAIN decisionServices THEN NotRegistered
           ELSE LET dmnRules == decisionServices[decisionServiceName]
                IN  IF part = "glossary"
                    THEN Answer(<<Asked("getGlossaryNames", dmnRules, <<>>),
                                  Asked("getGlossary", dmnRules, <<>>)>>,
                                Html(200, [page |-> "glossary",
                                           glossary |-> getGlossary(dmnRules)]))
                    ELSE IF part = "decision"
                    THEN Answer(<<Asked("getDecisionName", dmnRules, <<>>),
                                  Asked("getDecision", dmnRules, <<>>)>>,
                                Html(200, [page |-> "decision table"]))
                    ELSE IF part = "api"
                    THEN Answer(<<Asked("getGlossary", dmnRules, <<>>)>>,
                                ApiPage(mkOpenAPI(getGlossary(dmnRules),
                                                  CharsOf(decisionServiceName), PyNone, headers)))
                    ELSE IF part \notin getSheets(dmnRules)
                    THEN Answer(<<Asked("getSheets", dmnRules, <<>>)>>, NoSuchTable)
                    ELSE Answer(<<Asked("getSheets", dmnRules, <<>>),
                                  Asked("getTableGlossary", dmnRules, <<part>>),
                                  Asked("getGlossaryNames", dmnRules, <<>>)>>,
                                Html(200, [page |-> "sheet", sheet |-> part,
                                           glossary |-> getTableGlossary(dmnRules, part)]))
    /\ op' = "show_decision_service_part"
    /\ UNCHANGED <<decisionServices, codecVars, threads>>

\* after `sheet not in sheets` was found true: the warning and the message
\* format `part`, a name the two table handlers do not have
NoSuchTableLogged(calls) == Answer(calls, Fault("NameError"))

\* show_decision_service_part_api, GET /show_api/<decisionServiceName>/<sheet>
show_decision_service_part_api ==
    /\ Idle
    /\ \E decisionServiceName \in ServiceNames, sheet \in SheetNames, headers \in PageHeaders :
        /\ request' = [url |-> "/show_api", name |-> decisionServiceName, sheet |-> sheet,
                       headers |-> headers]
        /\ IF decisionServiceName \notin DOMAIN decisionServices THEN NotRegistered
           ELSE LET dmnRules == decisionServices[decisionServiceName]
                IN  IF sheet \notin getSheets(dmnRules)
                    THEN NoSuchTableLogged(<<Asked("getSheets", dmnRules, <<>>)>>)
                    ELSE Answer(<<Asked("getSheets", dmnRules, <<>>),
                                  Asked("getTableGlossary", dmnRules, <<sheet>>)>>,
                                ApiPage(mkOpenAPI(getTableGlossary(dmnRules, sheet),
                                                  CharsOf(decisionServiceName),
                                                  PyStr(CharsOf(sheet)), headers)))
    /\ op' = "show_decision_service_part_api"
    /\ UNCHANGED <<decisionServices, codecVars, threads>>

\* download_decision_service_api, GET /download/<decisionServiceName>
download_decision_service_api ==
    /\ Idle
    /\ \E decisionServiceName \in ServiceNames, headers \in PageHeaders :
        /\ request' = [url |-> "/download", name |-> decisionServiceName, headers |-> headers]
        /\ IF decisionServiceName \notin DOMAIN decisionServices THEN NotRegistered
           ELSE LET dmnRules == decisionServices[decisionServiceName]
                IN  Answer(<<Asked("getGlossary", dmnRules, <<>>)>>,
                           ApiFile(mkOpenAPI(getGlossary(dmnRules),
                                             CharsOf(decisionServiceName), PyNone, headers),
                                   CharsOf(decisionServiceName) \o <<".", "y", "a", "m", "l">>))
    /\ op' = "download_decision_service_api"
    /\ UNCHANGED <<decisionServices, codecVars, threads>>

\* download_decision_service_table_api, GET /download/<decisionServiceName>/<sheet>
download_decision_service_table_api ==
    /\ Idle
    /\ \E decisionServiceName \in ServiceNames, sheet \in SheetNames, headers \in PageHeaders :
        /\ request' = [url |-> "/download/table", name |-> decisionServiceName,
                       sheet |-> sheet, headers |-> headers]
        /\ IF decisionServiceName \notin DOMAIN decisionServices THEN NotRegistered
           ELSE LET dmnRules == decisionServices[decisionServiceName]
                IN  IF sheet \notin getSheets(dmnRules)
                    THEN NoSuchTableLogged(<<Asked("getSheets", dmnRules, <<>>)>>)
                    ELSE Answer(<<Asked("getSheets", dmnRules, <<>>),
                                  Asked("getTableGlossary", dmnRules, <<sheet>>)>>,
                                ApiFile(mkOpenAPI(getTableGlossary(dmnRules, sheet),
                                                  CharsOf(decisionServiceName),
                                                  PyStr(CharsOf(sheet)), headers),
                                        CharsOf(decisionServiceName) \o <<"_">> \o CharsOf(sheet)
                                        \o <<".", "y", "a", "m", "l">>))
    /\ op' = "download_decision_service_table_api"
    /\ UNCHANGED <<decisionServices, codecVars, threads>>

\* download_delete_decision_service_api, GET /download_delete/<decisionServiceName>
download_delete_decision_service_api ==
    /\ Idle
    /\ \E decisionServiceName \in ServiceNames, headers \in PageHeaders :
        /\ request' = [url |-> "/download_delete", name |-> decisionServiceName,
                       headers |-> headers]
        /\ IF decisionServiceName \notin DOMAIN decisionServices THEN NotRegistered
           ELSE Answer(<<>>, ApiFile(mkDeleteOpenAPI(CharsOf(decisionServiceName), headers),
                                     CharsOf(decisionServiceName)
                                     \o <<"_", "d", "e", "l", "e", "t", "e", ".", "y", "a", "m", "l">>))
    /\ op' = "download_delete_decision_service_api"
    /\ UNCHANGED <<decisionServices, codecVars, threads>>

-----------------------------------------------------------------------------
(* Requests served at the same time.  app.run (app.py:1069) serves each      *)
(* request in a thread of its own; the handlers share decisionServices and   *)
(* take no lock.  A thread can be suspended between any two statements, so a *)
(* handler is cut at its reads and writes of decisionServices: the test      *)
(* `not in`, the subscription, the `del` and the assignment are one step     *)
(* each.  What a handler does with its local dmnRules afterwards is the      *)
(* sequential handler above.                                                  *)

Threads == 1..MaxThreads
SharedNames == {"svc"}
SharedHandlers == {"decision_service", "delete_decision_service", "upload_file"}
NoRules == [rules |-> ""]

Waiting == [pc |-> "idle", handler |-> "", name |-> "", dmnRules |-> NoRules,
            response |-> NoResponse]

At(t, handler, pc) == threads[t].handler = handler /\ threads[t].pc = pc

Goto(t, pc) == threads' = [threads EXCEPT ![t].pc = pc]

Finish(t, answer) ==
    threads' = [threads EXCEPT ![t].pc = "done", ![t].response = answer]

\* a request for one of the three handlers arrives and gets a thread; an
\* upload is of a file that passes the checks of upload_file
Accept ==
    \E t \in Threads, handler \in SharedHandlers, name \in SharedNames,
       rules \in {"rules1", "rules2"} :
        /\ threads[t].pc = "idle"
        /\ handler # "upload_file" => rules = "rules1"
        /\ threads' = [threads EXCEPT ![t] =
              [pc |-> "check", handler |-> handler, name |-> name,
               dmnRules |-> IF handler = "upload_file" THEN [rules |-> rules] ELSE NoRules,
               response |-> NoResponse]]
        /\ UNCHANGED <<decisionServices, op, codecVars, handlerVars>>

\* decision_service: if decisionServiceName not in decisionServices
decision_service_check ==
    \E t \in Threads :
        /\ At(t, "decision_service", "check")
        /\ IF threads[t].name \notin DOMAIN decisionServices
           THEN Finish(t, NoSuchService)
           ELSE Goto(t, "lookup")
        /\ UNCHANGED <<decisionServices, op, codecVars, handlerVars>>

\* decision_service: dmnRules = decisionServices[decisionServiceName]
decision_service_lookup ==
    \E t \in Threads :
        /\ At(t, "decision_service", "lookup")
        /\ IF threads[t].name \notin DOMAIN decisionServices
           THEN Finish(t, Fault("KeyError"))
           ELSE threads' = [threads EXCEPT ![t].pc = "decide",
                                           ![t].dmnRules = decisionServices[threads[t].name]]
        /\ UNCHANGED <<decisionServices, op, codecVars, handlerVars>>

\* decision_service: the decision made with the local dmnRules
decision_service_decide ==
    \E t \in Threads :
        /\ At(t, "decision_service", "decide")
        /\ Finish(t, [kind |-> "json", code |-> 200,
                      body |-> [decidedBy |-> threads[t].dmnRules]])
        /\ UNCHANGED <<decisionServices, op, codecVars, handlerVars>>

\* delete_decision_service: if decisionServiceName not in decisionServices
delete_decision_service_check ==
    \E t \in Threads :
        /\ At(t, "delete_decision_service", "check")
        /\ IF threads[t].name \notin DOMAIN decisionServices
           THEN Finish(t, NoSuchService)
           ELSE Goto(t, "del")
        /\ UNCHANGED <<decisionServices, op, codecVars, handlerVars>>

\* delete_decision_service: del decisionServices[decisionServiceName]
delete_decision_service_del ==
    \E t \in Threads :
        /\ At(t, "delete_decision_service", "del")
        /\ IF threads[t].name \notin DOMAIN decisionServices
           THEN /\ Finish(t, Fault("KeyError"))
                /\ UNCHANGED decisionServices
           ELSE /\ Finish(t, Html(200, [page |-> "deleted"]))
                /\ decisionServices' =
                      [n \in DOMAIN decisionServices \ {threads[t].name} |->
                          decisionServices[n]]
        /\ UNCHANGED <<op, codecVars, handlerVars>>

\* upload_file: decisionServices[decisionServiceName] = copy.deepcopy(dmnRules)
upload_file_store ==
    \E t \in Threads :
        /\ At(t, "upload_file", "check")
        /\ Finish(t, Html(201, [page |-> "uploaded"]))
        /\ decisionServices' =
              Registered(decisionServices, threads[t].name, threads[t].dmnRules)
        /\ UNCHANGED <<op, codecVars, handlerVars>>

\* the response has been sent; the thread is free again
Reply ==
    \E t \in Threads :
        /\ threads[t].pc = "done"
        /\ threads' = [threads EXCEPT ![t] = Waiting]
        /\ UNCHANGED <<decisionServices, op, codecVars, handlerVars>>

Init ==
    /\ decisionServices = EmptyMap
    /\ threads = [t \in Threads |-> Waiting]
    /\ op = "idle"
    /\ arg0 = NoCall /\ arg = NoCall /\ ret = NoCall /\ retIsArg = FALSE
    /\ request = NoRequest /\ engine = NoEngine /\ response = NoResponse

Next ==
    \/ CallConvertAtString
    \/ CallConvertIn
    \/ CallConvertOut
    \/ CallConvertInWeb
    \/ Return

Spec == Init /\ [][Next]_vars

NextService ==
    \/ upload_file
    \/ delete_decision_service
    \/ decision_service
    \/ decision_service_table
    \/ show_decision_service
    \/ show_decision_service_part
    \/ show_decision_service_part_api
    \/ download_decision_service_api
    \/ download_decision_service_table_api
    \/ download_delete_decision_service_api
    \/ Return

SpecService == Init /\ [][NextService]_vars

NextSchema ==
    \/ CallMkOpenAPI
    \/ CallMkUploadOpenAPI
    \/ CallMkDeleteOpenAPI
    \/ Return

SpecSchema == Init /\ [][NextSchema]_vars

NextThreads ==
    \/ Accept
    \/ decision_service_check
    \/ decision_service_lookup
    \/ decision_service_decide
    \/ delete_decision_service_check
    \/ delete_decision_service_del
    \/ upload_file_store
    \/ Reply

SpecThreads == Init /\ [][NextThreads]_vars

-----------------------------------------------------------------------------
(* Claims about the codec *)

IsContainer(x) == IsInstanceDict(x) \/ IsInstanceList(x)

\* the positions of a container: its keys or its indexes
Positions(x) == IF IsInstanceList(x) THEN 1..Len(x.v) ELSE DOMAIN x.v

SameShape(before, after) ==
    /\ after.k = before.k
    /\ Positions(after) = Positions(before)

RECURSIVE IntsPromoted(_, _)
\* every int that is an item of the container `before`, at any depth, is in
\* `after` the float of the same value, and the containers keep their shape
IntsPromoted(before, after) ==
    /\ SameShape(before, after)
    /\ \A p \in Positions(before) :
          /\ before.v[p].k = "int" => after.v[p] = PyFloat(2 * before.v[p].v)
          /\ IsContainer(before.v[p]) => IntsPromoted(before.v[p], after.v[p])

RECURSIVE HasIntAtDepth(_, _)
HasIntAtDepth(x, depth) ==
    /\ IsContainer(x)
    /\ \E p \in Positions(x) :
          IF depth = 1 THEN x.v[p].k = "int" ELSE HasIntAtDepth(x.v[p], depth - 1)

\* C5: convertIn turns every int that is an item of a dict or of a list, at
\* every nesting depth, into the float of the same value, and returns a bare
\* top-level int unchanged, as an int.
C5_IntsInContainersPromoted ==
    op = "convertIn" =>
        /\ IsContainer(arg0) => IntsPromoted(arg0, ret)
        /\ arg0.k = "int" => ret = arg0

C5_Witness ==
    /\ op = "convertIn"
    /\ HasIntAtDepth(arg0, 2)
    /\ HasIntAtDepth(arg0, 1)
    /\ IntsPromoted(arg0, ret)

C5_WitnessTopLevel == op = "convertIn" /\ arg0 = PyInt(5) /\ ret = PyInt(5)

\* C6: for every value v of a temporal or interval kind, convertIn applied to
\* the token convertOut(v) gives back a value equal to v.
C6_RoundTrip ==
    (op = "convertOut" /\ arg0 \in Literals) => convertIn(ret) = arg0

\* the same for the kinds other than the interval
C6_RoundTripTemporals ==
    (op = "convertOut" /\ arg0 \in Temporals) => convertIn(ret) = arg0

ParseFails(x) == "errors" \in DOMAIN sFeelParse(Slice2m1(x.v))[1]

RECURSIVE FailedTokensKept(_, _)
\* every escaped-literal string of `before` whose inner text the parser
\* rejects is the same string in `after`, at the top level and at any depth
FailedTokensKept(before, after) ==
    IF IsContainer(before)
    THEN /\ SameShape(before, after)
         /\ \A p \in Positions(before) : FailedTokensKept(before.v[p], after.v[p])
    ELSE (IsAtString(before) /\ ParseFails(before)) => after = before

RECURSIVE HasFailedToken(_)
HasFailedToken(x) ==
    IF IsContainer(x) THEN \E p \in Positions(x) : HasFailedToken(x.v[p])
    ELSE IsAtString(x) /\ ParseFails(x)

\* C7: when the parser reports 'errors' for the inner text of an
\* escaped-literal string, convertAtString returns that string unchanged, and
\* convertIn leaves it unchanged wherever it stands (top level, dict, list).
C7_FailedTokenUnchanged ==
    /\ (op = "convertAtString" /\ ParseFails(arg0)) => ret = arg0
    /\ op = "convertIn" => FailedTokensKept(arg0, ret)

C7_Witness ==
    /\ op = "convertIn"
    /\ IsContainer(arg0)
    /\ \E p \in Positions(arg0) : IsContainer(arg0.v[p]) /\ HasFailedToken(arg0.v[p])
    /\ ret = arg0

C7_WitnessDirect == op = "convertAtString" /\ arg0 = BadToken /\ ret = BadToken

\* C8: convertIn and convertOut leave a dict or list argument with the
\* contents it had before the call, and return an object that is not the
\* argument.
C8_ArgumentUntouched ==
    (op \in {"convertIn", "convertOut"} /\ IsContainer(arg0)) =>
        /\ arg = arg0
        /\ ~retIsArg

\* C9: convertOut returns every float and every str unchanged.
C9_NumberTextPassthrough ==
    (op = "convertOut" /\ arg0.k \in {"float", "str"}) => ret = arg0

C9_Witness ==
    /\ op = "convertOut"
    /\ arg0 = PyFloat(0 - 3)
    /\ ret = PyFloat(0 - 3)

C9_WitnessWhole == op = "convertOut" /\ arg0 = PyFloat(10) /\ ret = PyFloat(10)

C9_WitnessText == op = "convertOut" /\ arg0 = BadToken /\ ret = BadToken

\* C10: convertOut gives the plain str 'true' for True, 'false' for False and
\* 'null' for None: a str that is not an escaped literal, not a bool, not
\* None, and for a bool not the months encoding of the int it also is.
C10_BoolNullTokens ==
    op = "convertOut" =>
        /\ arg0 = PyBool(TRUE) => ret = PyStr(<<"t", "r", "u", "e">>)
        /\ arg0 = PyBool(FALSE) => ret = PyStr(<<"f", "a", "l", "s", "e">>)
        /\ arg0 = PyNone => ret = PyStr(<<"n", "u", "l", "l">>)
        /\ arg0.k \in {"bool", "None"} =>
              /\ ret.k = "str"
              /\ Slice02(ret.v) # AtQuote
        /\ arg0.k = "bool" => ret # EncodeMonths(IF arg0.v THEN 1 ELSE 0)

C10_Witness == op = "convertOut" /\ arg0 = PyBool(TRUE) /\ ret = PyStr(<<"t", "r", "u", "e">>)

C10_WitnessNull == op = "convertOut" /\ arg0 = PyNone /\ ret = PyStr(<<"n", "u", "l", "l">>)

-----------------------------------------------------------------------------
(* Claims about the result normaliser *)

DecideOps == {"decision_service", "decision_service_table"}

\* a decide handler ran, called the engine and the caller accepts JSON
DecidedJSON == op \in DecideOps /\ engine.calls # <<>> /\ WantsJSON(request)

StatusOK == "errors" \notin DOMAIN engine.status

\* the RuleTraces of a record, in order: its list, or its one trace
TracesOf(record) ==
    IF IsInstanceList(record.v["Executed Rule"])
    THEN record.v["Executed Rule"].v
    ELSE <<record.v["Executed Rule"]>>

RECURSIVE TotalTraces(_, _)
\* the number of RuleTraces in the first n records
TotalTraces(records, n) ==
    IF n = 0 THEN 0 ELSE TotalTraces(records, n - 1) + Len(TracesOf(records[n]))

\* the audit trail: the p-th entry is the [decision, table, ruleId] of the
\* p-th RuleTrace, counting through the records in order
AuditTrail(records) ==
    [p \in 1..TotalTraces(records, Len(records)) |->
        LET i == CHOOSE i \in 1..Len(records) :
                    TotalTraces(records, i - 1) < p /\ p <= TotalTraces(records, i)
            trace == TracesOf(records[i])[p - TotalTraces(records, i - 1)]
        IN  PyList(<<trace.v[1], trace.v[2], trace.v[3]>>)]

\* the envelope the spec describes for a sequence of records
SpecEnvelope(records, status) ==
    [kind |-> "json", code |-> 200,
     body |-> PyDict(("Executed Rule" :> PyList(AuditTrail(records)))
                     @@ ("Result" :>
                            IF records = <<>> THEN PyDict(EmptyMap)
                            ELSE LET result == records[Len(records)].v["Result"].v
                                 IN  PyDict([variable \in DOMAIN result |->
                                                convertOut(result[variable])]))
                     @@ ("Status" :> PyDict(status)))]

\* C1: for a non-empty list of DecisionRecords and a status without 'errors',
\* 'Executed Rule' of the JSON envelope is the RuleTraces of all the records, as
\* [decision, table, ruleId] triples, in record order and within a record in
\* list order, and 'Result' has the keys of the last record's 'Result', each
\* with convertOut of its value.
C1_EnvelopeOfRecordList ==
    (DecidedJSON /\ StatusOK /\ IsInstanceList(engine.newData) /\ Len(engine.newData.v) > 0) =>
        LET records == engine.newData.v
            last == records[Len(records)].v["Result"].v
        IN  /\ response.kind = "json"
            /\ response.body.v["Executed Rule"] = PyList(AuditTrail(records))
            /\ DOMAIN response.body.v["Result"].v = DOMAIN last
            /\ \A variable \in DOMAIN last :
                  response.body.v["Result"].v[variable] = convertOut(last[variable])

C1_Witness ==
    /\ DecidedJSON /\ StatusOK
    /\ IsInstanceList(engine.newData) /\ Len(engine.newData.v) = 2
    /\ ~IsInstanceList(engine.newData.v[1].v["Executed Rule"])
    /\ IsInstanceList(engine.newData.v[2].v["Executed Rule"])
    /\ Len(engine.newData.v[2].v["Executed Rule"].v) = 2
    /\ engine.newData.v[1].v["Result"] # engine.newData.v[2].v["Result"]
    /\ response.kind = "json"
    /\ response.body.v["Executed Rule"] =
          PyList(<<PyList(RuleTrace(1, 0).v), PyList(RuleTrace(2, 1).v),
                   PyList(RuleTrace(2, 2).v)>>)

\* C2: when status has 'errors' and the caller accepts JSON, both handlers
\* answer Result = {}, Executed Rule = [] and Status = the engine's status,
\* and nothing of the engine's newData is normalised or handed to convertOut.
C2_ErrorShortCircuit ==
    (DecidedJSON /\ ~StatusOK) =>
        /\ response = [kind |-> "json", code |-> 200,
                       body |-> PyDict(("Result" :> PyDict(EmptyMap))
                                       @@ ("Executed Rule" :> PyList(<<>>))
                                       @@ ("Status" :> PyDict(engine.status)))]
        /\ engine.converted = {}
        /\ engine.after = engine.newData

C2_Witness ==
    /\ DecidedJSON /\ ~StatusOK
    /\ op = "decision_service_table"
    /\ IsInstanceList(engine.newData) /\ Len(engine.newData.v) > 0
    /\ response.kind = "json"
    /\ response.body.v["Status"] = PyDict(EngineErrors)

\* C3: for a status without 'errors' and an empty list of DecisionRecords, a
\* JSON request to either handler completes without a fault, with Result = {}
\* and Executed Rule = [].
C3_EmptyOutcome ==
    (DecidedJSON /\ StatusOK /\ engine.newData = PyList(<<>>)) =>
        /\ response.kind = "json"
        /\ response.body.v["Result"] = PyDict(EmptyMap)
        /\ response.body.v["Executed Rule"] = PyList(<<>>)

\* C3 for each handler alone
C3_EmptyOutcomeDecide == op = "decision_service" => C3_EmptyOutcome
C3_EmptyOutcomeDecideTables == op = "decision_service_table" => C3_EmptyOutcome

\* C4: one DecisionRecord that is not in a list gives the envelope of the
\* one-element list holding it, whether its 'Executed Rule' is one RuleTrace or
\* a list of them.
C4_SingleRecordAsList ==
    (DecidedJSON /\ StatusOK /\ IsInstanceDict(engine.newData)) =>
        response = SpecEnvelope(<<engine.newData>>, engine.status)

\* C4 for each handler and each shape of 'Executed Rule' alone
C4_DecideOneTrace ==
    (op = "decision_service" /\ IsInstanceDict(engine.newData)
        /\ ~IsInstanceList(engine.newData.v["Executed Rule"])) => C4_SingleRecordAsList
C4_DecideTraceList ==
    (op = "decision_service" /\ IsInstanceDict(engine.newData)
        /\ IsInstanceList(engine.newData.v["Executed Rule"])) => C4_SingleRecordAsList
C4_DecideTablesOneTrace ==
    (op = "decision_service_table" /\ IsInstanceDict(engine.newData)
        /\ ~IsInstanceList(engine.newData.v["Executed Rule"])) => C4_SingleRecordAsList
C4_DecideTablesTraceList ==
    (op = "decision_service_table" /\ IsInstanceDict(engine.newData)
        /\ IsInstanceList(engine.newData.v["Executed Rule"])) => C4_SingleRecordAsList

-----------------------------------------------------------------------------
(* Claims about the duration tokens *)

\* the token '@"<sign>P<d>DT<h>H<m>M<sec>S"', sec in halves written as '%f'
DayTimeToken(negative, d, h, m, secHalves) ==
    PyStr(AtQuote \o (IF negative THEN <<"-">> ELSE <<>>) \o <<"P">> \o DecStr(d)
          \o <<"D", "T">> \o DecStr(h) \o <<"H">> \o DecStr(m) \o <<"M">>
          \o FormatF(secHalves) \o <<"S">> \o Quote)

\* C11: convertOut of a days-and-time duration of s seconds is
\* '@"<sign>P<d>DT<h>H<m>M<sec>S"' with sign '-' exactly when s < 0,
\* d = floor(|s| / 86400), 0 <= h < 24, 0 <= m < 60, 0 <= sec < 60 and
\* d * 86400 + h * 3600 + m * 60 + sec = |s|; 1 day 2 hours 3 minutes 4.5
\* seconds gives '@"P1DT2H3M4.500000S"'.  (Seconds are counted in halves; a
\* whole number of seconds is an even number of halves.)
C11_DayTimeDurationToken ==
    (op = "convertOut" /\ arg0.k = "timedelta") =>
        LET halves == Abs(arg0.v)
            d == halves \div (2 * 86400)
        IN  /\ \E h \in 0..23, m \in 0..59 :
                LET secHalves == halves - 2 * (d * 86400 + h * 3600 + m * 60)
                IN  /\ 0 <= secHalves /\ secHalves < 2 * 60
                    /\ ret = DayTimeToken(arg0.v < 0, d, h, m, secHalves)
            /\ arg0.v = 2 * (86400 + 2 * 3600 + 3 * 60 + 4) + 1 =>
                 ret = PyStr(<<"@", "\"", "P", "1", "D", "T", "2", "H", "3", "M",
                               "4", ".", "5", "0", "0", "0", "0", "0", "S", "\"">>)

\* a negative duration of a whole number of seconds: -(1 day 23:59:59)
C11_Witness ==
    /\ op = "convertOut"
    /\ arg0 = PyTimedelta(0 - 2 * (86400 + 23 * 3600 + 59 * 60 + 59))
    /\ ret = PyStr(<<"@", "\"", "-", "P", "1", "D", "T", "2", "3", "H", "5", "9", "M",
                     "5", "9", ".", "0", "0", "0", "0", "0", "0", "S", "\"">>)

C11_WitnessExample ==
    /\ op = "convertOut"
    /\ arg0 = PyTimedelta(2 * (86400 + 2 * 3600 + 3 * 60 + 4) + 1)
    /\ ret = DayTimeToken(FALSE, 1, 2, 3, 9)

\* C12: convertOut of a years-and-months duration of m months is
\* '@"<sign>P<y>Y<r>M"' with sign '-' exactly when m < 0, y = floor(|m| / 12)
\* and r = |m| mod 12, so 0 <= r < 12 and 12 * y + r = |m|.
C12_YearMonthDurationToken ==
    (op = "convertOut" /\ arg0.k = "int") =>
        \E y \in 0..Abs(arg0.v), r \in 0..11 :
            /\ 12 * y + r = Abs(arg0.v)
            /\ ret = PyStr(AtQuote \o (IF arg0.v < 0 THEN <<"-">> ELSE <<>>) \o <<"P">>
                           \o DecStr(y) \o <<"Y">> \o DecStr(r) \o <<"M">> \o Quote)

C12_Witness ==
    /\ op = "convertOut"
    /\ arg0 = PyInt(0 - 25)
    /\ ret = PyStr(<<"@", "\"", "-", "P", "2", "Y", "1", "M", "\"">>)

C12_WitnessZero ==
    /\ op = "convertOut"
    /\ arg0 = PyInt(0)
    /\ ret = PyStr(<<"@", "\"", "P", "0", "Y", "0", "M", "\"">>)

-----------------------------------------------------------------------------
(* Claims about the envelope's Status and about the table reference *)

\* x is a list of str
IsListOfStr(x) == IsInstanceList(x) /\ \A i \in 1..Len(x.v) : IsInstanceStr(x.v[i])

\* C13: every JSON envelope of decision_service and decision_service_table,
\* on success as well as on engine error, has a Status object with an
\* 'errors' sequence of strings, empty when the decision succeeded.
C13_StatusHasErrors ==
    (op \in DecideOps /\ response.kind = "json") =>
        LET Status == response.body.v["Status"]
        IN  /\ IsInstanceDict(Status)
            /\ "errors" \in DOMAIN Status.v
            /\ IsListOfStr(Status.v["errors"])
            /\ StatusOK => Status.v["errors"] = PyList(<<>>)

\* the half of C13 about an engine error: Status is the engine's status
C13_ErrorEnvelopeHasErrors ==
    (op \in DecideOps /\ response.kind = "json" /\ ~StatusOK) =>
        /\ "errors" \in DOMAIN response.body.v["Status"].v
        /\ IsListOfStr(response.body.v["Status"].v["errors"])

\* on success the envelope's Status has no 'errors' at all
C13_SuccessStatusWithoutErrors ==
    (op \in DecideOps /\ response.kind = "json" /\ StatusOK) =>
        "errors" \notin DOMAIN response.body.v["Status"].v

\* C14: decideTables(data, [sheet]) is invoked only if sheet is a key of the
\* engine's getSheets(); a request naming an unknown sheet is answered with an
\* error response without invoking decideTables.
C14_KnownSheetOnly ==
    op = "decision_service_table" =>
        /\ \A i \in 1..Len(engine.calls) :
              \A t \in 1..Len(engine.calls[i].tables) :
                  engine.calls[i].tables[t] \in getSheets(engine.calls[i].dmnRules)
        /\ (request.name \in DOMAIN decisionServices
            /\ request.sheet \notin getSheets(decisionServices[request.name])) =>
              /\ engine.calls = <<>>
              /\ response.code = 400

\* a service that does not exist is answered before the engine is reached
C14_UnknownServiceNotCalled ==
    (op = "decision_service_table" /\ request.name \notin DOMAIN decisionServices) =>
        engine.calls = <<>> /\ response = NoSuchService

-----------------------------------------------------------------------------
(* Claims about decoding where the string stands *)

RECURSIVE TokensDecoded(_, _)
\* every string of `before` that is '@"' + <the text of a literal> + '"', at
\* the top level and at any depth, is in `after` the value the text denotes
TokensDecoded(before, after) ==
    IF IsContainer(before)
    THEN /\ SameShape(before, after)
         /\ \A p \in Positions(before) : TokensDecoded(before.v[p], after.v[p])
    ELSE IsInstanceStr(before) =>
            \A entry \in FeelGrammar :
                before.v = AtQuote \o entry[1] \o Quote => after = entry[2]

\* C15: a string that starts with '@"' and ends with '"' is decoded wherever
\* it occurs, as a top-level scalar, as a map value or as a list element at
\* any nesting depth: when the parser succeeds the string is replaced by the
\* parser's value.
C15_TokenDecodedAnywhere ==
    op = "convertIn" => TokensDecoded(arg0, ret)

\* a token two containers deep
C15_Witness ==
    /\ op = "convertIn"
    /\ arg0 = PyList(<<PyDict("a" :> GoodToken)>>)
    /\ ret = PyList(<<PyDict("a" :> PyDate(2024, 1, 15))>>)

C15_WitnessTopLevel ==
    op = "convertIn" /\ arg0 = GoodToken /\ ret = PyDate(2024, 1, 15)

C15_WitnessMapValue ==
    /\ op = "convertIn"
    /\ arg0 = PyDict("a" :> Token(PyTimedelta(0 - 9)))
    /\ ret = PyDict("a" :> PyTimedelta(0 - 9))

-----------------------------------------------------------------------------
(* Claims about the OpenAPI text *)

SchemaOps == {"mkOpenAPI", "mkUploadOpenAPI", "mkDeleteOpenAPI"}

\* the places of a line in the text
PlacesOf(lines, line) == {i \in 1..Len(lines) : lines[i] = line}

\* the URL of the servers block that starts at place i
UrlAt(lines, i) == SubSeq(lines[i + 2], 2, Len(lines[i + 2]) - 1)

\* part is a run of consecutive characters of whole
IsPartOf(part, whole) ==
    \E from \in 1..(Len(whole) + 1), to \in 0..Len(whole) : SubSeq(whole, from, to) = part

\* the text up to the first ';'
RECURSIVE FirstElement(_)
FirstElement(chars) ==
    IF chars = <<>> \/ Head(chars) = ";" THEN <<>>
    ELSE <<Head(chars)>> \o FirstElement(Tail(chars))

\* C16: mkOpenAPI, mkUploadOpenAPI and mkDeleteOpenAPI emit exactly one
\* 'servers' block whose URL comes from the first available source in the
\* order: X-Forwarded-Proto together with X-Forwarded-Host ('<proto>://<host>'),
\* then Host, then the first element of Forwarded; when only one of the two
\* X-Forwarded headers is present the pair is skipped; when none of the
\* sources is present no 'servers' block is emitted.
C16_ServersFromFirstSource ==
    op \in SchemaOps =>
        LET headers == request.headers
            lines == IF ret.k = "text" THEN ret.v ELSE <<>>
            blocks == PlacesOf(lines, <<"servers:">>)
            url == UrlAt(lines, CHOOSE i \in blocks : TRUE)
        IN  /\ ret.k = "text"
            /\ IF XFP \in DOMAIN headers /\ XFH \in DOMAIN headers
               THEN /\ Cardinality(blocks) = 1
                    /\ url = headers[XFP] \o <<"://">> \o headers[XFH]
               ELSE IF "Host" \in DOMAIN headers
               THEN /\ Cardinality(blocks) = 1
                    /\ url = headers["Host"]
               ELSE IF "Forwarded" \in DOMAIN headers
               THEN /\ Cardinality(blocks) = 1
                    /\ IsPartOf(url, FirstElement(headers["Forwarded"]))
               ELSE blocks = {}

\* the first element of Forwarded has the form <key>=<value>
ForwardedHasPair(headers) == "=" \in {FirstElement(headers["Forwarded"])[i] :
                                         i \in 1..Len(FirstElement(headers["Forwarded"]))}

\* Forwarded is the source that is read
ForwardedIsRead(headers) ==
    /\ ~(XFP \in DOMAIN headers /\ XFH \in DOMAIN headers)
    /\ "Host" \notin DOMAIN headers
    /\ "Forwarded" \in DOMAIN headers

\* what holds of C16: the order of the sources, whenever a text is returned
C16_ServersWhenTextReturned ==
    (op \in SchemaOps /\ ret.k = "text") => C16_ServersFromFirstSource

\* no text is returned exactly when Forwarded is read and its first element
\* has no '=': forwards[0].split('=')[1] raises IndexError
C16_ForwardedWithoutPairRaises ==
    op \in SchemaOps =>
        (ret = Raise("IndexError")
            <=> (ForwardedIsRead(request.headers) /\ ~ForwardedHasPair(request.headers)))

\* the lines of the text between two of its lines
Between(lines, first, last) ==
    SubSeq(lines, (CHOOSE i \in PlacesOf(lines, first) : TRUE) + 1,
                  (CHOOSE i \in PlacesOf(lines, last) : TRUE) - 1)

\* the names of the properties written at an indent, in the order of the text
PropertiesAt(lines, indent) ==
    LET IsProperty(line) == Len(line) >= 2 /\ line[1] = indent /\ line[Len(line)] = "\":"
        found == SelectSeq(lines, IsProperty)
    IN  [i \in 1..Len(found) |-> SubSeq(found[i], 2, Len(found[i]) - 1)]

\* the top-level properties of decisionInputData, and those of its nested objects
InputProperties(lines) ==
    PropertiesAt(Between(lines, <<"    decisionInputData:">>, <<"    decisionOutputData:">>),
                 "        \"")
NestedInputProperties(lines) ==
    PropertiesAt(Between(lines, <<"    decisionInputData:">>, <<"    decisionOutputData:">>),
                 "              \"")
\* the entries of "Result" in decisionOutputData
ResultProperties(lines) ==
    PropertiesAt(Between(lines, <<"        \"Result\":">>, <<"        \"Executed Rule\":">>),
                 "            \"")

Count(names, name) == Cardinality({i \in 1..Len(names) : names[i] = name})

MadeOpenAPI == op = "mkOpenAPI" /\ ret.k = "text"

C18_GlossaryOrder ==
    MadeOpenAPI =>
        LET glossary == arg0.v.glossary
            variables == Concat([c \in 1..Len(glossary) |-> glossary[c].variables])
            concepts == [c \in 1..Len(glossary) |-> glossary[c].concept]
            IsVariable(name) == \E n \in 1..Len(variables) : variables[n] = name
            IsWrapper(name) == name # Data /\ \E c \in 1..Len(concepts) : concepts[c] = name
            IsWrapped(concept) == concept # Data
        IN  /\ ResultProperties(ret.v) = variables
            /\ SelectSeq(InputProperties(ret.v), IsVariable) = variables
            /\ SelectSeq(InputProperties(ret.v), IsWrapper) = SelectSeq(concepts, IsWrapped)

\* two concepts, the variables of the first not in alphabetical order
C18_Witness ==
    /\ MadeOpenAPI
    /\ arg0.v.glossary =
          << [concept |-> Data, variables |-> <<<<"y">>, <<"x">>>>],
             [concept |-> <<"P">>, variables |-> <<<<"P", ".", "b">>, <<"P", ".", "a">>>>] >>
    /\ ResultProperties(ret.v) = << <<"y">>, <<"x">>, <<"P", ".", "b">>, <<"P", ".", "a">> >>
    /\ InputProperties(ret.v) =
          << <<"y">>, <<"x">>, <<"P">>, <<"P", ".", "b">>, <<"P", ".", "a">> >>

-----------------------------------------------------------------------------
(* Claims about the HTML page of a decision *)

\* a decision was made for a caller that does not accept application/json,
\* the engine's status has no 'errors' and the outcome has a last record
DecidedHTML ==
    /\ op \in DecideOps
    /\ engine.calls # <<>>
    /\ ~WantsJSON(request)
    /\ StatusOK
    /\ IsInstanceList(engine.newData) => Len(engine.newData.v) > 0

\* the last DecisionRecord of the outcome; a single record is itself
LastRecord(newData) ==
    IF IsInstanceList(newData) THEN newData.v[Len(newData.v)] ELSE newData

\* C19: for a caller that does not accept application/json and an error-free
\* status the page shows only the last DecisionRecord of the outcome (a single
\* record as itself): one result row per entry of its Result except the
\* entries whose value is the empty string, one trace row per RuleTrace if its
\* 'Executed Rule' is a list and exactly one row if it is a single trace; the
\* traces of earlier records are not shown.
C19_PageShowsLastRecord ==
    DecidedHTML =>
        LET record == LastRecord(engine.newData)
            result == record.v["Result"].v
            executedRule == record.v["Executed Rule"]
            page == response.body
        IN  /\ response.kind = "html" /\ response.code = 200
            /\ DOMAIN page.results = {variable \in DOMAIN result : result[variable] # PyStr(<<>>)}
            /\ \A variable \in DOMAIN page.results : page.results[variable] = result[variable]
            /\ IF IsInstanceList(executedRule)
               THEN /\ Len(page.deciders) = Len(executedRule.v)
                    /\ \A j \in 1..Len(executedRule.v) :
                          page.deciders[j] = executedRule.v[j].v
               ELSE page.deciders = <<executedRule.v>>
            /\ IsInstanceList(engine.newData) =>
                  \A i \in 1..(Len(engine.newData.v) - 1), j \in 1..Len(page.deciders) :
                      page.deciders[j] \notin
                          {TracesOf(engine.newData.v[i])[t].v :
                              t \in 1..Len(TracesOf(engine.newData.v[i]))}

\* two records, the last with a list of two traces and an entry that is ''
C19_Witness ==
    /\ DecidedHTML
    /\ IsInstanceList(engine.newData) /\ Len(engine.newData.v) = 2
    /\ TracesOf(engine.newData.v[1]) # <<>>
    /\ "note" \in DOMAIN LastRecord(engine.newData).v["Result"].v
    /\ LastRecord(engine.newData).v["Result"].v["note"] = PyStr(<<>>)
    /\ "note" \notin DOMAIN response.body.results
    /\ "when" \in DOMAIN response.body.results
    /\ response.body.deciders = <<RuleTrace(2, 1).v, RuleTrace(2, 2).v>>

\* a single record with a single trace
C19_WitnessSingle ==
    /\ DecidedHTML
    /\ op = "decision_service_table"
    /\ ~IsInstanceList(engine.newData)
    /\ response.body.deciders = <<RuleTrace(0, 0).v>>

-----------------------------------------------------------------------------
(* Claims about the text of a form field *)

\* the text is a literal of the host language
ParsesAsLiteral(text) == \E entry \in LiteralEvalTable : entry[1] = text.v

\* C20: convertInWeb never fails on the text of a form field: if the text
\* parses as a literal the result is convertIn of the parsed value, otherwise
\* it is convertIn of the text itself, so a text that does not parse and is
\* not an escaped literal is returned unchanged.
C20_ConvertInWebNeverFails ==
    op = "convertInWeb" =>
        /\ ret.k # "raise"
        /\ \A entry \in LiteralEvalTable : entry[1] = arg0.v => ret = convertIn(entry[2])
        /\ ~ParsesAsLiteral(arg0) =>
              /\ ret = convertIn(arg0)
              /\ ~IsAtString(arg0) => ret = arg0

\* a text that does not parse and is not an escaped literal
C20_Witness ==
    /\ op = "convertInWeb"
    /\ arg0 = PyStr(<<"5", " ", "k", "g">>)
    /\ ~ParsesAsLiteral(arg0)
    /\ ret = arg0

\* a text that parses: '[5]' is the list [5], and convertIn makes it [5.0]
C20_WitnessParsed ==
    /\ op = "convertInWeb"
    /\ arg0 = PyStr(<<"[", "5", "]">>)
    /\ ret = PyList(<<PyFloat(10)>>)

\* an escaped literal does not parse as a literal of the host language and is
\* decoded by convertIn
C20_WitnessToken ==
    /\ op = "convertInWeb"
    /\ arg0 = GoodToken
    /\ ~ParsesAsLiteral(arg0)
    /\ ret = PyDate(2024, 1, 15)

-----------------------------------------------------------------------------
(* Claims about the data handed to the engine *)

RECURSIVE HasInt(_)
\* an int (not a bool) is in x, at the top or at any depth
HasInt(x) ==
    IF IsContainer(x) THEN \E p \in Positions(x) : HasInt(x.v[p]) ELSE x.k = "int"

\* a decision was asked with a JSON body and the engine was called
DecidedFromJSON == op \in DecideOps /\ engine.calls # <<>> /\ request.contentType = JSON

\* C21: for a JSON body that is a map, the data handed to decide /
\* decideTables is convertIn applied to the whole body; in particular every
\* integer of the body, the value of a top-level variable included, reaches
\* the engine as a float.
C21_DataIsConvertInOfBody ==
    DecidedFromJSON =>
        /\ engine.calls[1].data = convertIn(request.body)
        /\ ~HasInt(engine.calls[1].data)

\* what the code does: convertIn is applied to the value of each variable, so
\* an int inside a list or dict is promoted and a top-level int is not
C21_DataIsConvertInOfEachValue ==
    DecidedFromJSON =>
        /\ DOMAIN engine.calls[1].data.v = DOMAIN request.body.v
        /\ \A variable \in DOMAIN request.body.v :
              engine.calls[1].data.v[variable] = convertIn(request.body.v[variable])
        /\ "n" \in DOMAIN request.body.v =>
              engine.calls[1].data.v["n"] = PyInt(5)
              /\ engine.calls[1].data.v["l"].v[1] = PyFloat(10)

-----------------------------------------------------------------------------
(* Claims about the two call sites of the normaliser *)

\* two responses agree: both are faults, or they are the same response
SameOutcome(one, other) == (one.kind = "fault" /\ other.kind = "fault") \/ one = other

\* the JSON response of each handler for a status and an outcome
JsonOfDecide(status, newData) ==
    IF "errors" \in DOMAIN status THEN BadStatus(status, TRUE)
    ELSE Envelope(NormalizeDecide(newData), status)
JsonOfDecideTables(status, newData) ==
    IF "errors" \in DOMAIN status THEN BadStatus(status, TRUE)
    ELSE Envelope(NormalizeDecideTables(newData), status)

\* C22: for every engine status and every outcome (one record or a list,
\* empty or not, each 'Executed Rule' one trace or a list) the JSON envelope
\* of decision_service equals the one of decision_service_table, and either
\* both complete or both fail.
C22_HandlersAgree ==
    DecidedJSON =>
        /\ op = "decision_service" =>
              SameOutcome(response, JsonOfDecideTables(engine.status, engine.newData))
        /\ op = "decision_service_table" =>
              SameOutcome(response, JsonOfDecide(engine.status, engine.newData))

\* where they do agree: an engine error, and a list of records
C22_HandlersAgreeOnLists ==
    (DecidedJSON /\ (~StatusOK \/ IsInstanceList(engine.newData))) => C22_HandlersAgree

\* where they differ: one record, not in a list, whose 'Executed Rule' is a
\* list of traces
C22_HandlersDifferOnBareRecord ==
    (DecidedJSON /\ StatusOK /\ ~IsInstanceList(engine.newData)
     /\ IsInstanceList(engine.newData.v["Executed Rule"])) =>
        /\ op = "decision_service" => response.kind = "fault"
        /\ op = "decision_service_table" => response.kind = "json"


\* ---------------------------------------------------------------------
\* C23
TableApiOps == {"show_decision_service_part_api", "download_decision_service_table_api"}

UnknownSheetAsked ==
    /\ op \in TableApiOps
    /\ request.name \in DOMAIN decisionServices
    /\ request.sheet \notin getSheets(decisionServices[request.name])

Called(fn) == \E i \in DOMAIN engine.calls : engine.calls[i].fn = fn

\* C23: for a registered service and a sheet that is not in getSheets(),
\* /show_api/{name}/{sheet} and /download/{name}/{sheet} answer with the
\* status-400 'no such Decision Table' response, and neither
\* getTableGlossary nor the schema generator is reached.
C23_UnknownSheetIs400 ==
    UnknownSheetAsked =>
        /\ response = NoSuchTable
        /\ ~Called("getTableGlossary")

\* what the code does instead: the request fails with NameError
C23_UnknownSheetFaults ==
    UnknownSheetAsked =>
        /\ response = Fault("NameError")
        /\ ~Called("getTableGlossary")

\* the page handler /show/{name}/{part}, where `part` is a parameter, does
\* answer 400 for the same sheet
C23_PageHandlerIs400 ==
    (/\ op = "show_decision_service_part"
     /\ request.name \in DOMAIN decisionServices
     /\ request.sheet \notin {"glossary", "decision", "api"}
     /\ request.sheet \notin getSheets(decisionServices[request.name]))
        => response = NoSuchTable /\ ~Called("getTableGlossary")

\* ---------------------------------------------------------------------
\* C24
IntervalEncoded ==
    /\ op = "convertOut"
    /\ arg0.k = "tuple"
    /\ Len(arg0.v) = 4

\* C24: convertOut of an Interval (lowEnd, low, high, highEnd) is the string
\* '@"' + lowEnd + str(low) + ' .. ' + str(high) + highEnd; its last
\* character is highEnd, not a double quote, so the token fails the
\* escaped-literal test of convertIn, which hands it back as it is.
C24_IntervalTokenUnclosed ==
    IntervalEncoded =>
        LET lowEnd == arg0.v[1].v
            highEnd == arg0.v[4].v
            body == lowEnd \o pyStr(arg0.v[2]) \o <<" ", ".", ".", " ">> \o pyStr(arg0.v[3])
        IN  /\ IsInstanceStr(ret)
            /\ Len(ret.v) = 2 + Len(body) + 1
            /\ SubSeq(ret.v, 1, 2) = <<"@", "\"">>
            /\ SubSeq(ret.v, 3, Len(ret.v) - 1) = body
            /\ <<ret.v[Len(ret.v)]>> = highEnd
            /\ ret.v[Len(ret.v)] # "\""
            /\ ~IsAtString(ret)
            /\ convertIn(ret) = ret

C24_Witness ==
    /\ IntervalEncoded
    /\ arg0.v[1].v = <<"(">>
    /\ arg0.v[4].v = <<"]">>
    /\ arg0.v[2].k = "float"
    /\ IsInstanceDate(arg0.v[3])
    /\ ret.v[Len(ret.v)] = "]"

\* ---------------------------------------------------------------------
\* C25
RECURSIVE BoolsKept(_, _)
\* every boolean inside `before` is the same boolean at the same place of `after`
BoolsKept(before, after) ==
    IF before.k = "bool" THEN after = before
    ELSE IF IsInstanceDict(before)
    THEN /\ IsInstanceDict(after)
         /\ DOMAIN after.v = DOMAIN before.v
         /\ \A key \in DOMAIN before.v : BoolsKept(before.v[key], after.v[key])
    ELSE IF IsInstanceList(before)
    THEN /\ IsInstanceList(after)
         /\ Len(after.v) = Len(before.v)
         /\ \A i \in 1..Len(before.v) : BoolsKept(before.v[i], after.v[i])
    ELSE TRUE

RECURSIVE BoolsPromoted(_, _)
\* every boolean inside `before` is 1.0 or 0.0 at the same place of `after`
BoolsPromoted(before, after) ==
    IF before.k = "bool" THEN after = PyFloat(IF before.v THEN 2 ELSE 0)
    ELSE IF IsInstanceDict(before)
    THEN \A key \in DOMAIN before.v : BoolsPromoted(before.v[key], after.v[key])
    ELSE IF IsInstanceList(before)
    THEN \A i \in 1..Len(before.v) : BoolsPromoted(before.v[i], after.v[i])
    ELSE TRUE

ContainerConverted ==
    /\ op = "convertIn"
    /\ IsInstanceDict(arg0) \/ IsInstanceList(arg0)

\* C25: convertIn promotes only integers; a boolean that is an item of a
\* dict or of a list, at any depth, comes back as the same boolean.
C25_NestedBoolKept ==
    ContainerConverted => BoolsKept(arg0, ret)

\* what the code does: isinstance(True, int) holds, so the boolean is
\* promoted like an integer
C25_NestedBoolPromoted ==
    ContainerConverted => BoolsPromoted(arg0, ret)

\* a boolean that is itself the argument is returned as it is
C25_TopLevelBoolKept ==
    (op = "convertIn" /\ arg0.k = "bool") => ret = arg0

\* ---------------------------------------------------------------------
\* C26
\* the rule sets whose load (use / useXML) reports no 'errors'
LoadableRules == {"rules1", "rules2"}

\* an upload that fails at one of the five steps of upload_file
UploadFails(r) ==
    \/ ~r.hasFile
    \/ r.name = "" /\ r.extn = ""
    \/ r.extn \notin {".xlsx", ".XLSM", ".XML", ".dmn"}
    \/ r.extn \in {".xlsx", ".XLSM"} /\ ~r.content.readable
    \/ ~r.content.valid

C26_RegisteredLoaded ==
    \A n \in DOMAIN decisionServices :
        /\ DOMAIN decisionServices[n] = {"rules"}
        /\ decisionServices[n].rules \in LoadableRules

C26_FailedUploadStep ==
    (op' = "upload_file" /\ UploadFails(request')) =>
        /\ response'.code = 400
        /\ decisionServices' = decisionServices

\* C26: in every reachable state each registered engine is a whole engine
\* whose use / useXML load reported no 'errors'; an upload that fails (no
\* file part, empty filename, disallowed extension, unreadable workbook,
\* load errors) answers 400 and leaves the registry as it was.
C26_RegistrySound ==
    /\ []C26_RegisteredLoaded
    /\ [][C26_FailedUploadStep]_vars

\* a load with errors was refused while a service was registered
C26_Witness ==
    /\ op = "upload_file"
    /\ request.hasFile
    /\ request.extn = ".XML"
    /\ ~request.content.valid
    /\ response.code = 400
    /\ "svc" \in DOMAIN decisionServices

\* ---------------------------------------------------------------------
\* C27
Answered(t) == threads[t].pc = "done"

\* C27: however a decide and a delete of the same service, or two deletes
\* of it, interleave, each request answers 400 'no such Decision Service'
\* or completes normally; none ends in a fault of the registry lookup.
C27_NoLookupFault ==
    \A t \in Threads :
        (Answered(t) /\ threads[t].handler \in {"decision_service", "delete_decision_service"})
            => \/ threads[t].response = NoSuchService
               \/ threads[t].response.code = 200

\* the three ways such a request ends in the code
C27_AnswerOrKeyError ==
    \A t \in Threads :
        (Answered(t) /\ threads[t].handler \in {"decision_service", "delete_decision_service"})
            => \/ threads[t].response = NoSuchService
               \/ threads[t].response.code = 200
               \/ threads[t].response = Fault("KeyError")

\* a decide that got its engine decides with an engine that was registered
C27_DecidesWithRegistered ==
    \A t \in Threads :
        (Answered(t) /\ threads[t].handler = "decision_service"
         /\ threads[t].response.code = 200)
            => threads[t].response.body.decidedBy.rules \in {"rules1", "rules2"}

\* two deletes of the same service both past the test: the second `del` fails
C27_TwoDeletesRaced ==
    \E t, u \in Threads :
        /\ t # u
        /\ Answered(t) /\ Answered(u)
        /\ threads[t].handler = "delete_decision_service"
        /\ threads[u].handler = "delete_decision_service"
        /\ threads[t].response.code = 200
        /\ threads[u].response = Fault("KeyError")

\* a decide past the test while a delete removed its service
C27_DecideRaced ==
    \E t, u \in Threads :
        /\ Answered(t) /\ Answered(u)
        /\ threads[t].handler = "delete_decision_service"
        /\ threads[u].handler = "decision_service"
        /\ threads[t].response.code = 200
        /\ threads[u].response = Fault("KeyError")

\* ---------------------------------------------------------------------
\* C28
\* the handlers of /show, /show/{part}, /show_api, /download,
\* /download_delete, /delete, /api and /api/{n}_table
LookupOps ==
    {"show_decision_service", "show_decision_service_part",
     "show_decision_service_part_api", "download_decision_service_api",
     "download_decision_service_table_api", "download_delete_decision_service_api",
     "delete_decision_service", "decision_service", "decision_service_table"}

\* a request for a name that is not registered when it arrives
C28_UnregisteredStep ==
    (op' \in LookupOps /\ request'.name \notin DOMAIN decisionServices) =>
        /\ response'.kind = "html"
        /\ response'.code = 400
        /\ response'.body = [page |-> "no such Decision Service"]
        /\ engine'.calls = <<>>
        /\ decisionServices' = decisionServices

\* a name is taken off the registry by a successful delete of that name only,
\* and comes back by a successful upload of that name only
C28_DeletedUntilUploaded ==
    \A n \in {"svc", "ghost", "other"} :
        /\ (n \in DOMAIN decisionServices /\ n \notin DOMAIN decisionServices') =>
              /\ op' = "delete_decision_service"
              /\ request'.name = n
              /\ response'.code = 200
        /\ (n \notin DOMAIN decisionServices /\ n \in DOMAIN decisionServices') =>
              /\ op' = "upload_file"
              /\ request'.name = n
              /\ response'.code = 201

\* C28: in a sequential history, from a successful delete of n until the
\* next successful upload named n, every request for n to one of the
\* lookup routes answers 400 and asks nothing of an engine; a delete of an
\* unregistered name answers 400 and leaves the registry as it was.
C28_DeletedIsUnknown ==
    /\ [][C28_UnregisteredStep]_vars
    /\ [][C28_DeletedUntilUploaded]_vars

\* svc is gone while another service is registered, and a request for svc
\* to /show_api was refused
C28_Witness ==
    /\ op = "show_decision_service_part_api"
    /\ request.name = "svc"
    /\ "svc" \notin DOMAIN decisionServices
    /\ "other" \in DOMAIN decisionServices
    /\ response.code = 400

\* ---------------------------------------------------------------------
\* C29
UploadSucceeded == op' = "upload_file" /\ response'.code = 201

C29_UploadStep ==
    UploadSucceeded =>
        LET n == request'.name
        IN  /\ DOMAIN decisionServices' = DOMAIN decisionServices \cup {n}
            /\ decisionServices'[n] = [rules |-> request'.content.rules]
            /\ \A other \in DOMAIN decisionServices \ {n} :
                  decisionServices'[other] = decisionServices[other]

\* C29: a successful upload of a file whose base name is n maps n to the
\* engine just built, in place of any engine registered as n before, and
\* leaves every other entry of the registry as it was.
C29_UploadReplacesOnlyItsName == [][C29_UploadStep]_vars

\* svc was uploaded as a workbook and again as XML with other rules, while
\* another service was registered
C29_Witness ==
    /\ op = "upload_file"
    /\ response.code = 201
    /\ request.name = "svc"
    /\ request.extn = ".XML"
    /\ request.content.rules = "rules2"
    /\ decisionServices["svc"].rules = "rules2"
    /\ "other" \in DOMAIN decisionServices

\* ---------------------------------------------------------------------
\* C30
IsWireNumber(x) == x.k \in {"int", "float"}
\* the value of a number, in halves
Halves(x) == IF x.k = "int" THEN 2 * x.v ELSE x.v

RECURSIVE NumbersSurvive(_, _)
\* every number inside `before` is a number of the same value at the same
\* place of `after`
NumbersSurvive(before, after) ==
    IF IsWireNumber(before)
    THEN IsWireNumber(after) /\ Halves(after) = Halves(before)
    ELSE IF IsContainer(before)
    THEN /\ SameShape(before, after)
         /\ \A p \in Positions(before) : NumbersSurvive(before.v[p], after.v[p])
    ELSE TRUE

\* C30: for every wire number n, a top-level scalar or nested in a dict or
\* list, that the engine hands back as it received it, convertOut(convertIn(n))
\* is a number equal to n and never an escaped-literal string.
C30_NumbersSurvive ==
    op = "convertIn" => NumbersSurvive(arg0, convertOut(ret))

\* it holds of the numbers inside a dict or list, and of a top-level float
C30_NestedNumbersSurvive ==
    (op = "convertIn" /\ (IsContainer(arg0) \/ arg0.k = "float"))
        => NumbersSurvive(arg0, convertOut(ret))

\* a top-level int is not promoted by convertIn, and convertOut encodes an
\* int as a years-and-months duration
C30_TopLevelIntIsDuration ==
    (op = "convertIn" /\ arg0.k = "int")
        => /\ ret = arg0
           /\ convertOut(ret) = EncodeMonths(arg0.v)
           /\ IsAtString(convertOut(ret))
====
